---- MODULE Spec2Model ----
(***************************************************************************)
(* Verification model of the contract-playbook-ai patch-and-extraction     *)
(* pipeline:                                                               *)
(*   - updateClause          (components/superdoc/SuperdocEditor.tsx)      *)
(*   - createChunks, generateContentWithRetry, analyzeDocumentWithGemini   *)
(*                           (services/geminiService.ts)                   *)
(*   - startReview, handleRestart and the session handlers (App.tsx)       *)
(*                                                                         *)
(* The module holds several specifications over one set of variables; each *)
(* specification drives one component and leaves the others at rest.       *)
(***************************************************************************)
EXTENDS Integers, Sequences, FiniteSets, TLC

VARIABLES
    \* ---- document held by the editor (ProseMirror state.doc) ----
    doc,          \* flat token sequence; token i+1 sits at document position i
    blockAttrs,   \* attrs of the k-th block node: [id, status]
    \* ---- one call of updateClause ----
    ucPc,         \* "idle" | "diffing" | "dispatched" | "done"
    ucId,         \* clauseId argument
    newText,      \* newText argument
    positionMap,  \* index -> absolute document position (0-based index + 1)
    textBuffer,   \* text collected by the position mapper
    tr,           \* document of the transaction under construction
    textIndex,    \* cursor in textBuffer
    mapOffset,    \* running offset of the edits issued so far
    propIndex,    \* how much of newText the diff segments seen so far cover
    txOps,        \* operations put on the transaction, in order
    dispatches,   \* transactions dispatched by this call, in order
    ucResult,     \* "none" | "true" | "false"
    ucConsole,    \* messages this call wrote with console.error, in order
    \* ---- one call of createChunks ----
    ckDoc,        \* document.paragraphs
    ckSt,         \* loop state: chunks, currentChunk, its length, currentClauseCount
    ckI,          \* next paragraph of the loop (1-based)
    ckChunks,     \* returned batches
    ckPc,         \* "ready" | "loop" | "done"
    \* ---- one call of generateContentWithRetry ----
    grPc,         \* "idle" | "attempt" | "backoff" | "returned" | "thrown"
    grArg,        \* retries argument of the outermost call
    grRetries,    \* retries argument of the current (recursive) call
    grAttempts,   \* ai.models.generateContent calls made by this call
    grLastError,  \* error of the last failed attempt
    grDelay,      \* milliseconds of the last backoff delay
    inFlight,     \* ai.models.generateContent calls not yet settled
    remoteCalls,  \* ai.models.generateContent calls issued in all
    retryableFailures, \* attempts that failed and were retried
    \* ---- one run of analyzeDocumentWithGemini ----
    adPc,         \* "start" | "loop" | "await" | "merge" | "returned" | "threw"
    adDoc,        \* document.paragraphs
    adChunks,     \* chunks
    adI,          \* loop index i
    allFindings,  \* accepted findings, in order
    seenIds,      \* Set of accepted ids
    seenTextHashes, \* Map hash -> id
    adRecs,       \* findings of the current response handled so far
    adWarn,       \* console.warn of the current iteration of the merge loop
    merging,      \* batches inside the dedup-and-insert loop
    batchLog,     \* outcome of every finished batch
    batchCalls,   \* generateContentWithRetry calls made by the run
    firstSeen,    \* id -> text of the first record met with that id
    adResult,     \* value returned by analyzeDocumentWithGemini
    \* ---- App: review session ----
    status,           \* session.status
    findings,         \* session.findings
    activeFindingId,  \* session.activeFindingId, NoId for null
    uploadedFile,     \* session.uploadedFile !== null
    isEditorReady,    \* the isEditorReady state of App
    pdPc,             \* position of runPartyDetection
    ppPc,             \* position of processPlaybookFile
    ppReady,          \* isEditorReady as captured by the closures of that render
    srPc,             \* position of startReview / attemptAnalysis
    srReady,          \* isEditorReady as seen by attemptAnalysis
    srRetries,        \* retries argument of the pending attemptAnalysis
    lastAccept,       \* latest handleAccept call: arguments, result of updateClause
    srAbandoned,      \* handleRestart ran while the remote analysis of this run was in flight
    \* ---- one call of parseIR followed by mapIRToFindings ----
    irText,       \* the raw generated text, line by line
    irPc,         \* "idle" | "ready" | "parsed" | "mapped"
    irParsed,     \* records returned by parseIR
    irFindings,   \* findings returned by mapIRToFindings
    \* ---- one call of parseRuleIR ----
    rlText,       \* the raw generated text, piece by piece
    rlPc,         \* "idle" | "ready" | "done" | "merged"
    rlChanges,    \* rules returned by parseRuleIR
    rlPlaybook,   \* playbook.rules handed to refinePlaybookGlobal
    rlResult,     \* rules of the playbook refinePlaybookGlobal returns
    \* ---- the editor document as structureDocument sees it ----
    sdDoc,        \* block nodes in traversal order: [type, hasText, id, status]
    sdNextId,     \* next value of generateUUID
    sdCalls,      \* calls of structureDocument made so far
    sdDispatches, \* transactions dispatched by structureDocument
    sdConsole,    \* last message of the last call
    \* ---- PlaybookTable: the rules and the modification state ----
    tbRules,      \* playbook.rules
    originalMap,  \* modifiedState.originalMap: rule_id -> snapshot
    viewMode,     \* modifiedState.viewMode: rule_id -> "amended" | "original"
    tbFirst,      \* index -> the rule as it was before its first AI refinement
    \* ---- one call of getClauses ----
    gcDoc,        \* attrs.id of the nodes of state.doc, in document order
    gcPc,         \* "idle" | "ready" | "noEditor" | "done" | "empty"
    gcClauses,    \* ids of the returned clauses, in order
    \* ---- one call of runWithConcurrencyLimit ----
    rcTasks,      \* per task: "new" | "running" | "settled" | "removed"
    rcOutcome,    \* per task: "none" | "ok" | "fail"
    rcStarts,     \* per task: number of calls of task()
    rcLimit,      \* limit argument
    rcI,          \* next task of the for loop (1-based)
    rcPc,         \* "idle" | "ready" | "race" | "all" | "returned" | "threw"
    rcAwaited,    \* promises handed to the pending Promise.race / Promise.all
    rcSettled,    \* outcome of the pending Promise.race / Promise.all
    executing,    \* the executing list
    results       \* the results list

patchVars == <<doc, blockAttrs, ucPc, ucId, newText, positionMap, textBuffer,
               tr, textIndex, mapOffset, propIndex, txOps, dispatches, ucResult,
               ucConsole>>

chunkVars == <<ckDoc, ckSt, ckI, ckChunks, ckPc>>

retryVars == <<grPc, grArg, grRetries, grAttempts, grLastError, grDelay,
               inFlight, remoteCalls, retryableFailures>>

dispVars == <<adPc, adDoc, adChunks, adI, allFindings, seenIds, seenTextHashes,
              adRecs, adWarn, merging, batchLog, batchCalls, firstSeen, adResult>>

sessVars == <<status, findings, activeFindingId, uploadedFile, isEditorReady,
              pdPc, ppPc, ppReady, srPc, srReady, srRetries, srAbandoned,
              lastAccept>>

parseVars == <<irText, irPc, irParsed, irFindings>>

ruleVars == <<rlText, rlPc, rlChanges, rlPlaybook, rlResult>>

structVars == <<sdDoc, sdNextId, sdCalls, sdDispatches, sdConsole>>

tableVars == <<tbRules, originalMap, viewMode, tbFirst>>

clauseVars == <<gcDoc, gcPc, gcClauses>>

poolVars == <<rcTasks, rcOutcome, rcStarts, rcLimit, rcI, rcPc, rcAwaited,
              rcSettled, executing, results>>

vars == <<patchVars, chunkVars, retryVars, dispVars, sessVars, parseVars,
          ruleVars, structVars, tableVars, clauseVars, poolVars>>

nonPatchVars == <<chunkVars, retryVars, dispVars, sessVars, parseVars, ruleVars,
    structVars,
    tableVars, clauseVars, poolVars>>
nonChunkVars == <<patchVars, retryVars, dispVars, sessVars, parseVars, ruleVars,
    structVars,
    tableVars, clauseVars, poolVars>>
nonRetryVars == <<patchVars, chunkVars, dispVars, sessVars, parseVars, ruleVars,
    structVars,
    tableVars, clauseVars, poolVars>>
nonDispVars == <<patchVars, chunkVars, sessVars, parseVars, ruleVars,
    structVars,
    tableVars, clauseVars, poolVars>>
nonSessVars == <<patchVars, chunkVars, retryVars, dispVars, parseVars, ruleVars,
    structVars,
    tableVars, clauseVars, poolVars>>
nonParseVars == <<patchVars, chunkVars, retryVars, dispVars, sessVars, ruleVars,
    structVars,
    tableVars, clauseVars, poolVars>>
nonRuleVars == <<patchVars, chunkVars, retryVars, dispVars, sessVars, parseVars,
    structVars,
    tableVars, clauseVars, poolVars>>
nonStructVars == <<patchVars, chunkVars, retryVars, dispVars, sessVars, parseVars,
    ruleVars,
    tableVars, clauseVars, poolVars>>

nonTableVars == <<patchVars, chunkVars, retryVars, dispVars, sessVars, parseVars,
    ruleVars, structVars, clauseVars, poolVars>>
nonClauseVars == <<patchVars, chunkVars, retryVars, dispVars, sessVars, parseVars,
    ruleVars, structVars, tableVars, poolVars>>
nonPoolVars == <<patchVars, chunkVars, retryVars, dispVars, sessVars, parseVars,
    ruleVars, structVars, tableVars, clauseVars>>

(***************************************************************************)
(* Bounds                                                                  *)
(***************************************************************************)
MaxText == 3      \* longest text of the patched block, in characters
MaxNew == 2       \* longest proposed text, in characters
MaxTok == 2       \* longest token of one diff segment
MaxRun == 2       \* longest text run of the block layouts

Alphabet == {"a", "b"}

Min(a, b) == IF a < b THEN a ELSE b

Texts(n) == UNION {[1..k -> Alphabet] : k \in 0..n}

(***************************************************************************)
(* Document tree, flattened: every node boundary, leaf node and character  *)
(* occupies one position, as in the editing engine's position scheme.      *)
(***************************************************************************)
IsText(tok) == tok \in Alphabet

RECURSIVE RunLayout(_, _)
RunLayout(text, r) ==
    IF Len(text) = 0 THEN <<>>
    ELSE IF Len(text) <= r THEN <<"<r>">> \o text \o <<"</r>">>
    ELSE <<"<r>">> \o SubSeq(text, 1, r) \o <<"</r>">>
         \o RunLayout(SubSeq(text, r + 1, Len(text)), r)

\* a non-text leaf node between the first run and the rest
LeafLayout(text, r) ==
    IF Len(text) <= r THEN <<"*">> \o RunLayout(text, r)
    ELSE RunLayout(SubSeq(text, 1, r), r) \o <<"*">>
         \o RunLayout(SubSeq(text, r + 1, Len(text)), r)

BlockLayouts(text) ==
    {<<"<p>">> \o text \o <<"</p>">>}
    \cup {<<"<p>">> \o RunLayout(text, r) \o <<"</p>">> : r \in 1..MaxRun}
    \cup {<<"<p>">> \o LeafLayout(text, r) \o <<"</p>">> : r \in 1..MaxRun}

\* index in d of the k-th block node's opening token
OpenIdx(d, k) ==
    CHOOSE i \in 1..Len(d) :
        d[i] = "<p>" /\ Cardinality({j \in 1..i : d[j] = "<p>"}) = k

CloseIdx(d, k) ==
    CHOOSE i \in OpenIdx(d, k)..Len(d) :
        d[i] = "</p>" /\ \A j \in OpenIdx(d, k)..(i - 1) : d[j] # "</p>"

NumBlocks(d) == Cardinality({i \in 1..Len(d) : d[i] = "<p>"})

\* state.doc.descendants(...): first node whose attrs.id equals id; 0 if none
FindBlock(attrs, id) ==
    IF \E k \in 1..Len(attrs) : attrs[k].id = id
    THEN CHOOSE k \in 1..Len(attrs) :
            attrs[k].id = id /\ \A j \in 1..(k - 1) : attrs[j].id # id
    ELSE 0

\* position of the k-th block node (pos argument of the descendants callback)
BlockPos(d, k) == OpenIdx(d, k) - 1

RECURSIVE CollectText(_, _, _)
\* indices of the text tokens of d in lo..hi, in document order
CollectText(d, lo, hi) ==
    IF lo > hi THEN <<>>
    ELSE (IF IsText(d[lo]) THEN <<lo>> ELSE <<>>) \o CollectText(d, lo + 1, hi)

\* Position mapper: clauseNode.descendants visits every text node; a
\* character at content offset pos gets clausePos + 1 + pos.
BuildPositionMap_NoOpen(d, k) ==
    LET clausePos == BlockPos(d, k)
        idx == CollectText(d, OpenIdx(d, k) + 1, CloseIdx(d, k) - 1)
    IN  [n \in 1..Len(idx) |-> clausePos + (idx[n] - (OpenIdx(d, k) + 1))]

BuildPositionMap(d, k) ==
    LET clausePos == BlockPos(d, k)
        idx == CollectText(d, OpenIdx(d, k) + 1, CloseIdx(d, k) - 1)
    IN  [n \in 1..Len(idx) |-> clausePos + 1 + (idx[n] - (OpenIdx(d, k) + 1))]

BuildTextBuffer(d, k) ==
    LET idx == CollectText(d, OpenIdx(d, k) + 1, CloseIdx(d, k) - 1)
    IN  [n \in 1..Len(idx) |-> d[idx[n]]]

\* text of the k-th block as the tree holds it
BlockText(d, k) == BuildTextBuffer(d, k)

\* editing engine: tr.delete(from, to) removes positions from..to-1
Delete(d, from, to) == SubSeq(d, 1, from) \o SubSeq(d, to + 1, Len(d))

\* editing engine: tr.insertText(text, pos)
InsertText(d, text, pos) == SubSeq(d, 1, pos) \o text \o SubSeq(d, pos + 1, Len(d))

(***************************************************************************)
(* updateClause                                                            *)
(***************************************************************************)
\* positionMap[i] of the code (0-based index)
PM(i) == positionMap[i + 1]

\* The diff primitive: any segment list with
\*   concat(EQUAL, DELETE tokens) = textBuffer and
\*   concat(EQUAL, INSERT tokens) = newText.
\* The list is drawn one segment at a time; NextSegments is the set of
\* segments that may come next at the two cursors.
NextSegments ==
    {[op |-> "EQUAL", text |-> SubSeq(textBuffer, textIndex + 1, textIndex + n)] :
        n \in {m \in 1..MaxTok :
                 /\ textIndex + m <= Len(textBuffer)
                 /\ propIndex + m <= Len(newText)
                 /\ SubSeq(textBuffer, textIndex + 1, textIndex + m)
                      = SubSeq(newText, propIndex + 1, propIndex + m)}}
    \cup
    {[op |-> "DELETE", text |-> SubSeq(textBuffer, textIndex + 1, textIndex + n)] :
        n \in {m \in 1..MaxTok : textIndex + m <= Len(textBuffer)}}
    \cup
    {[op |-> "INSERT", text |-> SubSeq(newText, propIndex + 1, propIndex + n)] :
        n \in {m \in 1..MaxTok : propIndex + m <= Len(newText)}}

DiffExhausted == textIndex = Len(textBuffer) /\ propIndex = Len(newText)

\* mapOffset after a DELETE of the document range [from, to)
OffsetAfterDelete_Keep(off, from, to) == off

OffsetAfterDelete(off, from, to) == off - (to - from)

\* insertion point of an INSERT segment, before the offset is applied
InsertBase_NoEnd(ti, pm) == IF ti < Len(pm) THEN pm[ti + 1] ELSE pm[Len(pm)]

InsertBase(ti, pm) == IF ti < Len(pm) THEN pm[ti + 1] ELSE pm[Len(pm)] + 1

\* tr.delete / tr.insertText: the call adds one step to the transaction
Issue_Coalesce(ops, step) ==
    IF Len(ops) > 0 /\ ops[Len(ops)].op = "delete" /\ step.op = "insert"
    THEN [ops EXCEPT ![Len(ops)] = [op |-> "replace", from |-> ops[Len(ops)].from,
                                    to |-> ops[Len(ops)].to, text |-> step.text]]
    ELSE Append(ops, step)

Issue(ops, step) == Append(ops, step)

\* positionMap.length === 0
NoTextInBlock_Never(pm) == FALSE

NoTextInBlock(pm) == Len(pm) = 0

\* diffs.forEach has run through the whole list
AfterLastSegment_Early == TRUE

AfterLastSegment == DiffExhausted

\* newPos of lines 408-409: position of the first node whose attrs.id is id
NewPos_Shifted(d, attrs, id) ==
    IF FindBlock(attrs, id) = 0 THEN -1
    ELSE BlockPos(d, FindBlock(attrs, id)) + mapOffset

NewPos(d, attrs, id) ==
    IF FindBlock(attrs, id) = 0 THEN -1 ELSE BlockPos(d, FindBlock(attrs, id))

\* the block node that starts at position pos; 0 if no block starts there
BlockAt(d, pos) ==
    IF \E k \in 1..NumBlocks(d) : BlockPos(d, k) = pos
    THEN CHOOSE k \in 1..NumBlocks(d) : BlockPos(d, k) = pos
    ELSE 0

RECURSIVE ApplySteps(_, _, _)
\* the document a transaction yields: its first n steps applied to d in order
ApplySteps(d, ops, n) ==
    IF n = 0 THEN d
    ELSE LET before == ApplySteps(d, ops, n - 1) IN
         IF ops[n].op = "delete" THEN Delete(before, ops[n].from, ops[n].to)
         ELSE InsertText(before, ops[n].text, ops[n].from)

InitDocs ==
    {<<"<p>", "</p>">> \o b2 \o <<"<p>", "b", "</p>">> :
        b2 \in UNION {BlockLayouts(t) : t \in Texts(MaxText) \ {<<>>}}}

PatchIdle ==
    /\ doc = <<>>
    /\ blockAttrs = <<>>
    /\ ucPc = "off"
    /\ ucId = "none"
    /\ newText = <<>>
    /\ positionMap = <<>>
    /\ textBuffer = <<>>
    /\ tr = <<>>
    /\ textIndex = 0
    /\ mapOffset = 0
    /\ propIndex = 0
    /\ txOps = <<>>
    /\ dispatches = <<>>
    /\ ucResult = "none"
    /\ ucConsole = <<>>

PatchInit ==
    /\ doc \in InitDocs
    /\ blockAttrs = <<[id |-> "b1", status |-> "original"],
                      [id |-> "b2", status |-> "original"],
                      [id |-> "b3", status |-> "original"]>>
    /\ ucPc = "idle"
    /\ ucId = "none"
    /\ newText = <<>>
    /\ positionMap = <<>>
    /\ textBuffer = <<>>
    /\ tr = <<>>
    /\ textIndex = 0
    /\ mapOffset = 0
    /\ propIndex = 0
    /\ txOps = <<>>
    /\ dispatches = <<>>
    /\ ucResult = "none"
    /\ ucConsole = <<>>

\* lines 330-380: locate the block, build the position map, start the diff
UpdateClauseStart ==
    /\ ucPc = "idle"
    /\ \E id \in {"b1", "b2", "b3", "zz"}, nt \in Texts(MaxNew) :
        LET k == FindBlock(blockAttrs, id) IN
        /\ ucId' = id
        /\ newText' = nt
        /\ txOps' = <<>>
        /\ dispatches' = <<>>
        /\ textIndex' = 0
        /\ mapOffset' = 0
        /\ propIndex' = 0
        /\ IF k = 0
           THEN /\ ucPc' = "done" /\ ucResult' = "false"
                /\ ucConsole' = <<"Block node not found">>
                /\ UNCHANGED <<positionMap, textBuffer, tr>>
           ELSE /\ positionMap' = BuildPositionMap(doc, k)
                /\ textBuffer' = BuildTextBuffer(doc, k)
                /\ IF NoTextInBlock(BuildPositionMap(doc, k))
                   THEN /\ ucPc' = "done" /\ ucResult' = "false"
                        /\ ucConsole' = <<"No text in block">>
                        /\ UNCHANGED tr
                   ELSE /\ ucPc' = "diffing" /\ ucResult' = "none"
                        /\ ucConsole' = <<>>
                        /\ tr' = doc
    /\ UNCHANGED <<doc, blockAttrs>>
    /\ UNCHANGED nonPatchVars

\* lines 382-401: one iteration of diffs.forEach
ProcessSegment ==
    /\ ucPc = "diffing"
    /\ \E part \in NextSegments :
        LET token == part.text IN
        CASE part.op = "EQUAL" ->
                /\ textIndex' = textIndex + Len(token)
                /\ propIndex' = propIndex + Len(token)
                /\ UNCHANGED <<tr, mapOffset, txOps>>
          [] part.op = "DELETE" ->
                LET baseDocPos == PM(textIndex)
                    endTextIndex == Min(textIndex + Len(token) - 1, Len(positionMap) - 1)
                    baseEndDocPos == PM(endTextIndex) + 1
                    actualDocPos == baseDocPos + mapOffset
                    actualEndDocPos == baseEndDocPos + mapOffset
                IN  /\ tr' = Delete(tr, actualDocPos, actualEndDocPos)
                    /\ mapOffset' = OffsetAfterDelete(mapOffset, actualDocPos, actualEndDocPos)
                    /\ textIndex' = textIndex + Len(token)
                    /\ txOps' = Issue(txOps, [op |-> "delete", from |-> actualDocPos,
                                              to |-> actualEndDocPos, text |-> token])
                    /\ UNCHANGED propIndex
          [] part.op = "INSERT" ->
                LET baseDocPos == InsertBase(textIndex, positionMap)
                    actualDocPos == baseDocPos + mapOffset
                IN  /\ tr' = InsertText(tr, token, actualDocPos)
                    /\ mapOffset' = mapOffset + Len(token)
                    /\ txOps' = Issue(txOps, [op |-> "insert", from |-> actualDocPos,
                                              to |-> actualDocPos, text |-> token])
                    /\ propIndex' = propIndex + Len(token)
                    /\ UNCHANGED textIndex
    /\ UNCHANGED <<doc, blockAttrs, ucPc, ucId, newText, positionMap, textBuffer,
                   dispatches, ucResult, ucConsole>>
    /\ UNCHANGED nonPatchVars

\* line 403: dispatch(tr), once, after the last segment
DispatchEdit ==
    /\ ucPc = "diffing"
    /\ AfterLastSegment
    /\ doc' = tr
    /\ dispatches' = Append(dispatches, "edit")
    /\ ucPc' = "dispatched"
    /\ UNCHANGED <<blockAttrs, ucId, newText, positionMap, textBuffer, tr,
                   textIndex, mapOffset, propIndex, txOps, ucResult, ucConsole>>
    /\ UNCHANGED nonPatchVars

\* lines 405-417: find the block again by id, mark it pending, return true
MarkPending ==
    /\ ucPc = "dispatched"
    /\ LET newPos == NewPos(doc, blockAttrs, ucId)
           k == BlockAt(doc, newPos)
       IN  IF newPos # -1 /\ k # 0
           THEN /\ blockAttrs' = [blockAttrs EXCEPT ![k].status = "pending"]
                /\ dispatches' = Append(dispatches, "status")
           ELSE UNCHANGED <<blockAttrs, dispatches>>
    /\ ucPc' = "done"
    /\ ucResult' = "true"
    /\ UNCHANGED <<doc, ucId, newText, positionMap, textBuffer, tr,
                   textIndex, mapOffset, propIndex, txOps, ucConsole>>
    /\ UNCHANGED nonPatchVars

NextPatch ==
    \/ UpdateClauseStart
    \/ ProcessSegment
    \/ DispatchEdit
    \/ MarkPending

\* lines 382-403 when the list returned by the diff ends before the cursor
\* has reached the end of the original text: forEach is over, dispatch(tr)
DispatchDesynced ==
    /\ ucPc = "diffing"
    /\ textIndex # Len(textBuffer)
    /\ doc' = tr
    /\ dispatches' = Append(dispatches, "edit")
    /\ ucPc' = "dispatched"
    /\ UNCHANGED <<blockAttrs, ucId, newText, positionMap, textBuffer, tr,
                   textIndex, mapOffset, propIndex, txOps, ucResult, ucConsole>>
    /\ UNCHANGED nonPatchVars

\* updateClause over a diff primitive that may stop short of the text
NextPatchDesync ==
    \/ NextPatch
    \/ DispatchDesynced

(***************************************************************************)
(* createChunks                                                            *)
(***************************************************************************)
MaxChunkParas == 52   \* longest document given to createChunks
PatLen == 2           \* period of the text lengths along the document

\* text lengths of the paragraphs (characters)
LenSet == {10, 200, 500, 5000, 40000}

MAX_CHARS_PER_BATCH == 40000

\* length of an id made by generateUUID
IdLen == 36

\* pText.length for `<<CLAUSE id="${p.id}">>\n${p.text}\n<<END_CLAUSE>>\n\n`
SerLen(p) == 13 + IdLen + 4 + p.len + 17

RECURSIVE SumLen(_, _)
\* document.paragraphs.reduce((sum, p) => sum + p.text.length, 0)
SumLen(paras, i) == IF i = 0 THEN 0 ELSE SumLen(paras, i - 1) + paras[i].len

\* avgBlockSize = totalChars / n, compared without division
DynamicMaxClauses_Inclusive(paras) ==
    LET totalChars == SumLen(paras, Len(paras))
        n == Len(paras)
    IN  IF totalChars <= 200 * n THEN 50
        ELSE IF totalChars <= 500 * n THEN 30
        ELSE 18

DynamicMaxClauses(paras) ==
    LET totalChars == SumLen(paras, Len(paras))
        n == Len(paras)
    IN  IF totalChars < 200 * n THEN 50
        ELSE IF totalChars < 500 * n THEN 30
        ELSE 18

WillExceedChars(curLen, p) == (curLen + SerLen(p)) > MAX_CHARS_PER_BATCH

WillExceedClauses_OffByOne(count, maxClauses) == count > maxClauses

WillExceedClauses(count, maxClauses) == (count + 1) > maxClauses

\* currentChunk.length > 0, the guard of the flush inside the loop
ChunkNonEmpty_Always(curLen) == TRUE

ChunkNonEmpty(curLen) == curLen > 0

\* one iteration of `for (const p of document.paragraphs)`
ChunkStep(st, p, maxClauses) ==
    LET flush == (WillExceedChars(st.curLen, p) \/ WillExceedClauses(st.count, maxClauses))
                 /\ ChunkNonEmpty(st.curLen)
        chunks1 == IF flush THEN Append(st.chunks, st.cur) ELSE st.chunks
        cur1 == IF flush THEN <<>> ELSE st.cur
        curLen1 == IF flush THEN 0 ELSE st.curLen
        count1 == IF flush THEN 0 ELSE st.count
    IN  [chunks |-> chunks1,
         cur |-> Append(cur1, p),
         curLen |-> curLen1 + SerLen(p),
         count |-> count1 + 1]

ChunkStart == [chunks |-> <<>>, cur |-> <<>>, curLen |-> 0, count |-> 0]

RECURSIVE ChunkLoop(_, _, _, _)
\* the iterations i..Len(paras) of the loop, from loop state st
ChunkLoop(st, paras, i, maxClauses) ==
    IF i > Len(paras) THEN st
    ELSE LET st1 == ChunkStep(st, paras[i], maxClauses)
         IN  ChunkLoop(st1, paras, i + 1, maxClauses)

\* the tail of createChunks: push the last batch if it holds anything
FinalFlush_Drop(st) == st.chunks

FinalFlush(st) == IF st.curLen > 0 THEN Append(st.chunks, st.cur) ELSE st.chunks

CreateChunks(paras) ==
    IF Len(paras) = 0 THEN <<>>
    ELSE FinalFlush(ChunkLoop(ChunkStart, paras, 1, DynamicMaxClauses(paras)))

RECURSIVE ChunkSerLen(_, _)
\* length of the string held by one batch
ChunkSerLen(c, i) == IF i = 0 THEN 0 ELSE ChunkSerLen(c, i - 1) + SerLen(c[i])

RECURSIVE Flatten(_, _)
\* concatenation of the first i batches
Flatten(chunks, i) == IF i = 0 THEN <<>> ELSE Flatten(chunks, i - 1) \o chunks[i]

ChunkDocs ==
    {[i \in 1..n |-> [id |-> i, len |-> pat[((i - 1) % PatLen) + 1], terms |-> {}]] :
        n \in 0..MaxChunkParas, pat \in [1..PatLen -> LenSet]}

ChunkIdle ==
    /\ ckDoc = <<>>
    /\ ckSt = ChunkStart
    /\ ckI = 0
    /\ ckChunks = <<>>
    /\ ckPc = "off"

ChunkInit ==
    /\ ckDoc \in ChunkDocs
    /\ ckSt = ChunkStart
    /\ ckI = 0
    /\ ckChunks = <<>>
    /\ ckPc = "ready"

\* lines 319-338: the empty document returns at once
CreateChunksBegin ==
    /\ ckPc = "ready"
    /\ IF Len(ckDoc) = 0
       THEN ckPc' = "done" /\ ckI' = 0
       ELSE ckPc' = "loop" /\ ckI' = 1
    /\ UNCHANGED <<ckDoc, ckSt, ckChunks>>
    /\ UNCHANGED nonChunkVars

\* lines 340-353: one iteration of the loop
CreateChunksIter ==
    /\ ckPc = "loop"
    /\ ckI <= Len(ckDoc)
    /\ ckSt' = ChunkStep(ckSt, ckDoc[ckI], DynamicMaxClauses(ckDoc))
    /\ ckI' = ckI + 1
    /\ UNCHANGED <<ckDoc, ckChunks, ckPc>>
    /\ UNCHANGED nonChunkVars

\* lines 355-359: flush the last batch and return
CreateChunksReturn ==
    /\ ckPc = "loop"
    /\ ckI > Len(ckDoc)
    /\ ckChunks' = FinalFlush(ckSt)
    /\ ckPc' = "done"
    /\ UNCHANGED <<ckDoc, ckSt, ckI>>
    /\ UNCHANGED nonChunkVars

NextChunks ==
    \/ CreateChunksBegin
    \/ CreateChunksIter
    \/ CreateChunksReturn

(***************************************************************************)
(* generateContentWithRetry                                                *)
(***************************************************************************)
MaxRetriesArg == 3    \* largest retries argument given to the outermost call
AttemptCap == 6       \* no call is followed beyond this many attempts

DEFAULT_RETRIES == 3

NoError == [status |-> 0, code |-> 0, msg |-> "none"]

\* errors ai.models.generateContent may throw; msg names the marker the
\* message contains
Errors ==
    {[status |-> 429, code |-> 0, msg |-> "other"],
     [status |-> 0, code |-> 429, msg |-> "other"],
     [status |-> 0, code |-> 0, msg |-> "quota"],
     [status |-> 500, code |-> 0, msg |-> "other"],
     [status |-> 503, code |-> 0, msg |-> "other"],
     [status |-> 0, code |-> 500, msg |-> "other"],
     [status |-> 502, code |-> 0, msg |-> "other"],
     [status |-> 400, code |-> 0, msg |-> "other"]}

IsRateLimit(e) ==
    e.status = 429 \/ e.code = 429 \/ e.msg \in {"429", "quota", "RESOURCE_EXHAUSTED"}

IsServerError(e) == e.status = 500 \/ e.status = 503 \/ e.code = 500

ShouldRetry_AnyError(retries, e) == retries > 0

ShouldRetry_NoCeiling(retries, e) == IsRateLimit(e) \/ IsServerError(e)

ShouldRetry(retries, e) == retries > 0 /\ (IsRateLimit(e) \/ IsServerError(e))

\* 2000 * Math.pow(2, 3 - retries)
Backoff(retries) ==
    IF retries <= 3 THEN 2000 * 2^(3 - retries) ELSE 2000 \div 2^(retries - 3)

RetryIdle ==
    /\ grPc = "idle"
    /\ grArg = 0
    /\ grRetries = 0
    /\ grAttempts = 0
    /\ grLastError = NoError
    /\ grDelay = 0
    /\ inFlight = 0
    /\ remoteCalls = 0
    /\ retryableFailures = 0

\* entering generateContentWithRetry(ai, params, r): the first attempt starts
EnterCall(r) ==
    /\ grPc' = "attempt"
    /\ grArg' = r
    /\ grRetries' = r
    /\ grAttempts' = 1
    /\ grLastError' = NoError
    /\ grDelay' = 0
    /\ inFlight' = inFlight + 1
    /\ remoteCalls' = remoteCalls + 1
    /\ UNCHANGED retryableFailures

\* the caller has taken the outcome: the frames of the call are gone
LeaveCall ==
    /\ grPc' = "idle"
    /\ grArg' = 0
    /\ grRetries' = 0
    /\ grAttempts' = 0
    /\ grLastError' = NoError
    /\ grDelay' = 0
    /\ UNCHANGED <<inFlight, remoteCalls, retryableFailures>>

\* a caller outside the run: generateContentWithRetry(ai, params, r)
GenCall ==
    /\ grPc = "idle"
    /\ adPc = "off"
    /\ \E r \in 0..MaxRetriesArg : EnterCall(r)
    /\ UNCHANGED nonRetryVars

\* line 366: the attempt returns a response
GenAttemptOk ==
    /\ grPc = "attempt"
    /\ grPc' = "returned"
    /\ inFlight' = inFlight - 1
    /\ UNCHANGED <<grArg, grRetries, grAttempts, grLastError, grDelay,
                   remoteCalls, retryableFailures>>
    /\ UNCHANGED nonRetryVars

\* lines 367-378: the attempt throws e
GenAttemptFail ==
    /\ grPc = "attempt"
    /\ \E e \in Errors :
        /\ grLastError' = e
        /\ IF ShouldRetry(grRetries, e)
           THEN /\ grPc' = "backoff"
                /\ grDelay' = Backoff(grRetries)
                /\ retryableFailures' = retryableFailures + 1
           ELSE /\ grPc' = "thrown"
                /\ UNCHANGED <<grDelay, retryableFailures>>
    /\ inFlight' = inFlight - 1
    /\ UNCHANGED <<grArg, grRetries, grAttempts, remoteCalls>>
    /\ UNCHANGED nonRetryVars

\* lines 375-376: the delay is over, the recursive call makes the next attempt
GenBackoffDone ==
    /\ grPc = "backoff"
    /\ grAttempts < AttemptCap
    /\ grPc' = "attempt"
    /\ grRetries' = grRetries - 1
    /\ grAttempts' = grAttempts + 1
    /\ inFlight' = inFlight + 1
    /\ remoteCalls' = remoteCalls + 1
    /\ UNCHANGED <<grArg, grLastError, grDelay, retryableFailures>>
    /\ UNCHANGED nonRetryVars

NextRetry ==
    \/ GenCall
    \/ GenAttemptOk
    \/ GenAttemptFail
    \/ GenBackoffDone

(***************************************************************************)
(* analyzeDocumentWithGemini                                               *)
(***************************************************************************)
MaxParas == 2     \* longest document given to a run
MaxRecs == 3      \* most findings parsed from the responses of one run

RELEVANCE_THRESHOLD == 4

HASH_PREFIX == 100

SetMax(S) == CHOOSE x \in S : \A y \in S : y <= x

SetMin(S) == CHOOSE x \in S : \A y \in S : x <= y

\* ---- local relevance score (classifyClauseLocally) ----
PlaybookRules ==
    <<[category |-> "Limitation of Liability", signal_keywords |-> {"kw1", "kw2"},
       synonyms |-> {"syn1"}],
      [category |-> "LIABILITY", signal_keywords |-> {"kw3"}, synonyms |-> {}],
      [category |-> "COMMERCIAL", signal_keywords |-> {"kw4"}, synonyms |-> {"syn2"}]>>

\* normalizeCategory on the categories of PlaybookRules
NormalizeCategory(raw) ==
    CASE raw = "LIABILITY" -> "LIABILITY"
      [] raw = "Limitation of Liability" -> "LIABILITY"
      [] raw = "COMMERCIAL" -> "PAYMENT"
      [] OTHER -> "GENERAL"

\* ruleScore: 2 per signal keyword found, 3 per synonym found
RuleScore(rule, terms) ==
    2 * Cardinality(rule.signal_keywords \cap terms)
    + 3 * Cardinality(rule.synonyms \cap terms)

RECURSIVE CategoryScore(_, _, _, _)
\* scores.get(category).score after the first i rules
CategoryScore(cat, rules, terms, i) ==
    IF i = 0 THEN 0
    ELSE CategoryScore(cat, rules, terms, i - 1)
         + (IF NormalizeCategory(rules[i].category) = cat
            THEN RuleScore(rules[i], terms) ELSE 0)

\* Math.max(...relevantCategories.map(c => c.score)); -1 stands for -Infinity
MaxScore(rules, terms) ==
    LET cats == {NormalizeCategory(rules[i].category) : i \in
                    {k \in 1..Len(rules) : RuleScore(rules[k], terms) > 0}}
    IN  IF cats = {} THEN -1
        ELSE SetMax({CategoryScore(c, rules, terms, Len(rules)) : c \in cats})

\* playbook terms found in the text of a batch
ChunkTerms(chunk) == UNION {chunk[i].terms : i \in 1..Len(chunk)}

\* if (maxScore < 4) ... continue
BelowThreshold_Inclusive(score) == score <= RELEVANCE_THRESHOLD

BelowThreshold(score) == score < RELEVANCE_THRESHOLD

\* ---- content fingerprint ----
Rep(c, n) == [i \in 1..n |-> c]

\* original_text values the service may report
TextOf(name) ==
    CASE name = "T1" -> <<"A", "b">>
      [] name = "T2" -> <<"a", "b", " ">>
      [] name = "T3" -> <<" ", "A", "b">>
      [] name = "L1" -> Rep("a", HASH_PREFIX) \o <<"b">>
      [] name = "L2" -> Rep("a", HASH_PREFIX) \o <<"a">>

TextNames == {"T1", "T2", "T3", "L1", "L2"}

Trim(t) ==
    LET ns == {i \in 1..Len(t) : t[i] # " "}
    IN  IF ns = {} THEN <<>> ELSE SubSeq(t, SetMin(ns), SetMax(ns))

ToLowerCase(t) ==
    [i \in 1..Len(t) |-> IF t[i] = "A" THEN "a" ELSE IF t[i] = "B" THEN "b" ELSE t[i]]

\* t.substring(0, n)
Substring0(t, n) == SubSeq(t, 1, Min(n, Len(t)))

\* `${text.trim().toLowerCase().substring(0, 100)}_${text.length}`
TextHash(t) == <<Substring0(ToLowerCase(Trim(t)), HASH_PREFIX), Len(t)>>

\* the fingerprint of each text of the table
HashOf == [n \in TextNames |-> TextHash(TextOf(n))]

NoId == 0

MapGet(m, h) == IF h \in DOMAIN m THEN m[h] ELSE NoId

MapSet(m, h, id) == [x \in (DOMAIN m) \cup {h} |-> IF x = h THEN id ELSE m[x]]

\* check 1: seenIds.has(f.target_id)
SeenId(ids, id) == id \in ids

AddSeenId_Forget(ids, id) == ids

AddSeenId(ids, id) == ids \cup {id}

\* check 2: existingIdForText && existingIdForText !== f.target_id
ContentDuplicate_SameId(existing, id) == existing # NoId /\ existing = id

ContentDuplicate(existing, id) == existing # NoId /\ existing # id

\* lines 494-509: check 1, then check 2; both end the iteration with continue
Verdict_TextFirst(ids, existing, id) ==
    IF ContentDuplicate(existing, id) THEN "dup_text"
    ELSE IF SeenId(ids, id) THEN "dup_id"
    ELSE "accepted"

Verdict(ids, existing, id) ==
    IF SeenId(ids, id) THEN "dup_id"
    ELSE IF ContentDuplicate(existing, id) THEN "dup_text"
    ELSE "accepted"

NoWarn == [kind |-> "none", original |-> NoId, duplicate |-> NoId]

\* lines 496 and 507: the warning names the skipped id, and for a content
\* duplicate the id that holds the text
Warn(verdict, existing, id) ==
    IF verdict = "dup_id" THEN [kind |-> "dup_id", original |-> NoId, duplicate |-> id]
    ELSE IF verdict = "dup_text"
         THEN [kind |-> "dup_text", original |-> existing, duplicate |-> id]
    ELSE NoWarn

\* identifiers the service may name
TargetIds == {1, 2}

\* findings mapIRToFindings(parseIR(response)) may hold
Records == [target_id : TargetIds, original_text : TextNames]

\* ---- documents ----
ParaKinds ==
    {[len |-> 100, terms |-> {}],
     [len |-> 39000, terms |-> {"kw1", "kw3"}],
     [len |-> 39000, terms |-> {"kw1", "kw4"}]}

DispDocs ==
    {[i \in 1..n |-> [id |-> i, len |-> k[i].len, terms |-> k[i].terms]] :
        n \in 0..MaxParas, k \in [1..MaxParas -> ParaKinds]}

\* the awaited generateContentWithRetry has settled
CallSettled_NoAwait == TRUE

CallSettled == grPc \in {"returned", "thrown"}

\* catch (error) { console.error(...) }: the loop goes on
AfterCatch_Rethrow == "threw"

AfterCatch == "loop"

DispIdle ==
    /\ adPc = "off"
    /\ adDoc = <<>>
    /\ adChunks = <<>>
    /\ adI = 0
    /\ allFindings = <<>>
    /\ seenIds = {}
    /\ seenTextHashes = <<>>
    /\ adRecs = 0
    /\ adWarn = NoWarn
    /\ merging = {}
    /\ batchLog = <<>>
    /\ batchCalls = 0
    /\ firstSeen = [id \in TargetIds |-> "none"]
    /\ adResult = <<>>

DispInit ==
    /\ adPc = "start"
    /\ adDoc \in DispDocs
    /\ adChunks = <<>>
    /\ adI = 0
    /\ allFindings = <<>>
    /\ seenIds = {}
    /\ seenTextHashes = <<>>
    /\ adRecs = 0
    /\ adWarn = NoWarn
    /\ merging = {}
    /\ batchLog = <<>>
    /\ batchCalls = 0
    /\ firstSeen = [id \in TargetIds |-> "none"]
    /\ adResult = <<>>

LogBatch(outcome) == Append(batchLog, [outcome |-> outcome, size |-> Len(allFindings)])

\* lines 421-427
AnalyzeStart ==
    /\ adPc = "start"
    /\ adChunks' = CreateChunks(adDoc)
    /\ adPc' = "loop"
    /\ UNCHANGED <<adDoc, adI, allFindings, seenIds, seenTextHashes, adRecs, adWarn,
                   merging, batchLog, batchCalls, firstSeen, adResult>>
    /\ UNCHANGED <<nonDispVars, retryVars>>

\* lines 429-445: the batch scores below the threshold, continue
BatchSkip ==
    /\ adPc = "loop"
    /\ adI < Len(adChunks)
    /\ BelowThreshold(MaxScore(PlaybookRules, ChunkTerms(adChunks[adI + 1])))
    /\ batchLog' = LogBatch("skipped")
    /\ adI' = adI + 1
    /\ UNCHANGED <<adPc, adDoc, adChunks, allFindings, seenIds, seenTextHashes,
                   adRecs, adWarn, merging, batchCalls, firstSeen, adResult>>
    /\ UNCHANGED <<nonDispVars, retryVars>>

\* lines 429-480: the batch is relevant, generateContentWithRetry is called
BatchCall ==
    /\ adPc = "loop"
    /\ adI < Len(adChunks)
    /\ ~BelowThreshold(MaxScore(PlaybookRules, ChunkTerms(adChunks[adI + 1])))
    /\ EnterCall(DEFAULT_RETRIES)
    /\ batchCalls' = batchCalls + 1
    /\ adPc' = "await"
    /\ UNCHANGED <<adDoc, adChunks, adI, allFindings, seenIds, seenTextHashes,
                   adRecs, adWarn, merging, batchLog, firstSeen, adResult>>
    /\ UNCHANGED nonDispVars

\* lines 482-493: the response arrived, its findings are about to be merged
BatchResponse ==
    /\ adPc = "await"
    /\ CallSettled
    /\ grPc # "thrown"
    /\ adPc' = "merge"
    /\ merging' = merging \cup {adI}
    /\ UNCHANGED <<adDoc, adChunks, adI, adRecs, adWarn, allFindings, seenIds, seenTextHashes,
                   batchLog, batchCalls, firstSeen, adResult>>
    /\ LeaveCall
    /\ UNCHANGED nonDispVars

\* lines 493-515: one iteration of `for (const f of findings)`
MergeRecord ==
    /\ adPc = "merge"
    /\ adRecs < MaxRecs
    /\ \E f \in Records :
        LET textHash == HashOf[f.original_text]
            existingIdForText == MapGet(seenTextHashes, textHash)
            verdict == Verdict(seenIds, existingIdForText, f.target_id)
        IN  /\ adWarn' = Warn(verdict, existingIdForText, f.target_id)
            /\ IF verdict = "accepted"
               THEN /\ seenIds' = AddSeenId(seenIds, f.target_id)
                    /\ seenTextHashes' = MapSet(seenTextHashes, textHash, f.target_id)
                    /\ allFindings' = Append(allFindings, f)
               ELSE UNCHANGED <<seenIds, seenTextHashes, allFindings>>
            /\ firstSeen' = IF firstSeen[f.target_id] = "none"
                            THEN [firstSeen EXCEPT ![f.target_id] = f.original_text]
                            ELSE firstSeen
    /\ adRecs' = adRecs + 1
    /\ UNCHANGED <<adPc, adDoc, adChunks, adI, merging, batchLog, batchCalls, adResult>>
    /\ UNCHANGED <<nonDispVars, retryVars>>

\* end of the findings of this response: next iteration of the batch loop
BatchDone ==
    /\ adPc = "merge"
    /\ batchLog' = LogBatch("merged")
    /\ merging' = merging \ {adI}
    /\ adI' = adI + 1
    /\ adPc' = "loop"
    /\ adWarn' = NoWarn
    /\ UNCHANGED <<adDoc, adChunks, allFindings, seenIds, seenTextHashes, adRecs,
                   batchCalls, firstSeen, adResult>>
    /\ UNCHANGED <<nonDispVars, retryVars>>

\* lines 517-519: generateContentWithRetry threw, the batch is given up
BatchCatch ==
    /\ adPc = "await"
    /\ CallSettled
    /\ grPc = "thrown"
    /\ batchLog' = LogBatch("failed")
    /\ adI' = adI + 1
    /\ adPc' = AfterCatch
    /\ UNCHANGED <<adDoc, adChunks, allFindings, seenIds, seenTextHashes, adRecs, adWarn,
                   merging, batchCalls, firstSeen, adResult>>
    /\ LeaveCall
    /\ UNCHANGED nonDispVars

\* line 522
AnalyzeReturn ==
    /\ adPc = "loop"
    /\ adI >= Len(adChunks)
    /\ adResult' = allFindings
    /\ adPc' = "returned"
    /\ UNCHANGED <<adDoc, adChunks, adI, allFindings, seenIds, seenTextHashes,
                   adRecs, adWarn, merging, batchLog, batchCalls, firstSeen>>
    /\ UNCHANGED <<nonDispVars, retryVars>>

NextDispatch ==
    \/ AnalyzeStart
    \/ BatchSkip
    \/ BatchCall
    \/ GenAttemptOk
    \/ GenAttemptFail
    \/ GenBackoffDone
    \/ BatchResponse
    \/ MergeRecord
    \/ BatchDone
    \/ BatchCatch
    \/ AnalyzeReturn

(***************************************************************************)
(* App: the review session (review mode)                                   *)
(***************************************************************************)
POLL_RETRIES == 40

\* findings a review run may deliver: lists of distinct target ids
RunResults ==
    {<<>>, <<1>>, <<2>>, <<1, 2>>, <<2, 1>>}

NewFindings(ids) ==
    [i \in 1..Len(ids) |->
        [target_id |-> ids[i], status |-> "open", suggested_text |-> "suggested"]]

\* the text handed to handleAccept: the suggestion as it is, or edited
AcceptTexts == {"suggested", "edited"}

RunUnderWay == srPc \in {"poll", "structured", "analyzing"}

RECURSIVE Filter(_, _)
\* prev.findings.filter(f => f.target_id !== id)
Filter(fs, id) ==
    IF fs = <<>> THEN <<>>
    ELSE IF Head(fs).target_id # id THEN <<Head(fs)>> \o Filter(Tail(fs), id)
         ELSE Filter(Tail(fs), id)

\* prev.findings.map(f => f.target_id === id
\*     ? {...f, status: 'resolved', suggested_text: text} : f)
Resolve(fs, id, text) ==
    [i \in 1..Len(fs) |-> IF fs[i].target_id = id
                          THEN [fs[i] EXCEPT !.status = "resolved",
                                             !.suggested_text = text]
                          ELSE fs[i]]

\* lines 342-351: the findings after updateClause has returned success
AfterAccept_Ungated(fs, id, text, success) == Resolve(fs, id, text)

AfterAccept(fs, id, text, success) == IF success THEN Resolve(fs, id, text) ELSE fs

NoAccept == [seq |-> 0, id |-> NoId, text |-> "none", success |-> "none"]

\* what the completion of analyzeDocumentWithGemini writes into the session
CompletionStatus == "review_ready"

CompletionFindings(r) == NewFindings(r)

\* line 294: activeFindingId: null
CompletionActive_Keep(prev) == prev

CompletionActive(prev) == NoId

SessIdle ==
    /\ status = "off"
    /\ findings = <<>>
    /\ activeFindingId = NoId
    /\ uploadedFile = FALSE
    /\ isEditorReady = FALSE
    /\ pdPc = "none"
    /\ ppPc = "none"
    /\ ppReady = FALSE
    /\ srPc = "none"
    /\ srReady = FALSE
    /\ srRetries = 0
    /\ srAbandoned = FALSE
    /\ lastAccept = NoAccept

\* lines 15-33
SessInit ==
    /\ status = "idle"
    /\ findings = <<>>
    /\ activeFindingId = NoId
    /\ uploadedFile = FALSE
    /\ isEditorReady = FALSE
    /\ pdPc = "none"
    /\ ppPc = "none"
    /\ ppReady = FALSE
    /\ srPc = "none"
    /\ srReady = FALSE
    /\ srRetries = 0
    /\ srAbandoned = FALSE
    /\ lastAccept = NoAccept

HandleFileSelected ==
    /\ status \in {"idle", "mode_selection", "editor_debug"}
    /\ IF status = "editor_debug"
       THEN /\ uploadedFile' = TRUE
            /\ UNCHANGED <<status, isEditorReady>>
       ELSE /\ status' = "mode_selection"
            /\ uploadedFile' = TRUE
            /\ isEditorReady' = FALSE
    /\ UNCHANGED <<findings, activeFindingId, pdPc, ppPc, ppReady, srPc, srReady,
                   srRetries, srAbandoned>>
    /\ UNCHANGED lastAccept
    /\ UNCHANGED nonSessVars

HandleDebugEditor ==
    /\ status = "idle"
    /\ status' = "editor_debug"
    /\ UNCHANGED <<findings, activeFindingId, uploadedFile, isEditorReady, pdPc, ppPc,
                   ppReady, srPc, srReady, srRetries, srAbandoned>>
    /\ UNCHANGED lastAccept
    /\ UNCHANGED nonSessVars

\* the editor has loaded the file
OnEditorReady ==
    /\ uploadedFile
    /\ ~isEditorReady
    /\ isEditorReady' = TRUE
    /\ UNCHANGED <<status, findings, activeFindingId, uploadedFile, pdPc, ppPc,
                   ppReady, srPc, srReady, srRetries, srAbandoned>>
    /\ UNCHANGED lastAccept
    /\ UNCHANGED nonSessVars

\* selectMode('review') up to the first await of runPartyDetection
SelectMode ==
    /\ status = "mode_selection"
    /\ uploadedFile
    /\ pdPc = "none"
    /\ status' = "detecting_parties"
    /\ pdPc' = "run"
    /\ UNCHANGED <<findings, activeFindingId, uploadedFile, isEditorReady, ppPc,
                   ppReady, srPc, srReady, srRetries, srAbandoned>>
    /\ UNCHANGED lastAccept
    /\ UNCHANGED nonSessVars

\* runPartyDetection after its awaits, on success and in the catch branch alike
PartiesDetected ==
    /\ pdPc = "run"
    /\ status' = "party_selection"
    /\ pdPc' = "none"
    /\ UNCHANGED <<findings, activeFindingId, uploadedFile, isEditorReady, ppPc,
                   ppReady, srPc, srReady, srRetries, srAbandoned>>
    /\ UNCHANGED lastAccept
    /\ UNCHANGED nonSessVars

HandlePartySelected ==
    /\ status = "party_selection"
    /\ status' = "playbook_selection"
    /\ UNCHANGED <<findings, activeFindingId, uploadedFile, isEditorReady, pdPc, ppPc,
                   ppReady, srPc, srReady, srRetries, srAbandoned>>
    /\ UNCHANGED lastAccept
    /\ UNCHANGED nonSessVars

\* handlePlaybookUpload -> processPlaybookFile up to its first await;
\* one review run is followed at a time
HandlePlaybookUpload ==
    /\ status = "playbook_selection"
    /\ ppPc = "none"
    /\ ~RunUnderWay
    /\ status' = "processing_playbook"
    /\ ppPc' = "run"
    /\ ppReady' = isEditorReady
    /\ UNCHANGED <<findings, activeFindingId, uploadedFile, isEditorReady, pdPc,
                   srPc, srReady, srRetries, srAbandoned>>
    /\ UNCHANGED lastAccept
    /\ UNCHANGED nonSessVars

\* processPlaybookFile, catch branch
PlaybookFailed ==
    /\ ppPc = "run"
    /\ status' = "playbook_selection"
    /\ ppPc' = "none"
    /\ UNCHANGED <<findings, activeFindingId, uploadedFile, isEditorReady, pdPc,
                   ppReady, srPc, srReady, srRetries, srAbandoned>>
    /\ UNCHANGED lastAccept
    /\ UNCHANGED nonSessVars

\* processPlaybookFile calls startReview(playbook): lines 232-239
StartReview ==
    /\ ppPc = "run"
    /\ ppPc' = "none"
    /\ status' = "scanning"
    /\ srPc' = "poll"
    /\ srReady' = ppReady
    /\ srRetries' = POLL_RETRIES
    /\ srAbandoned' = FALSE
    /\ UNCHANGED <<findings, activeFindingId, uploadedFile, isEditorReady, pdPc, ppReady>>
    /\ UNCHANGED lastAccept
    /\ UNCHANGED nonSessVars

\* attemptAnalysis(retries): lines 241-254
AttemptAnalysis ==
    /\ srPc = "poll"
    /\ IF ~srReady
       THEN IF srRetries > 0
            THEN /\ srRetries' = srRetries - 1
                 /\ UNCHANGED <<srPc, status>>
            ELSE /\ status' = "error"
                 /\ srPc' = "error"
                 /\ UNCHANGED srRetries
       ELSE /\ srPc' = "structured"
            /\ UNCHANGED <<status, srRetries>>
    /\ UNCHANGED <<findings, activeFindingId, uploadedFile, isEditorReady, pdPc, ppPc,
                   ppReady, srReady, srAbandoned>>
    /\ UNCHANGED lastAccept
    /\ UNCHANGED nonSessVars

\* lines 256-286: the clauses are read and the remote analysis is started
ClausesExtracted ==
    /\ srPc = "structured"
    /\ status' = "analyzing"
    /\ srPc' = "analyzing"
    /\ UNCHANGED <<findings, activeFindingId, uploadedFile, isEditorReady, pdPc, ppPc,
                   ppReady, srReady, srRetries, srAbandoned>>
    /\ UNCHANGED lastAccept
    /\ UNCHANGED nonSessVars

\* lines 288-298: analyzeDocumentWithGemini has returned
AnalysisDone ==
    /\ srPc = "analyzing"
    /\ \E r \in RunResults :
        /\ status' = CompletionStatus
        /\ findings' = CompletionFindings(r)
        /\ activeFindingId' = CompletionActive(activeFindingId)
    /\ srPc' = "done"
    /\ UNCHANGED <<uploadedFile, isEditorReady, pdPc, ppPc, ppReady, srReady,
                   srRetries, srAbandoned>>
    /\ UNCHANGED lastAccept
    /\ UNCHANGED nonSessVars

\* lines 300-303: something between structureDocument and the completion threw
RunThrows ==
    /\ srPc \in {"structured", "analyzing"}
    /\ status' = "error"
    /\ srPc' = "error"
    /\ UNCHANGED <<findings, activeFindingId, uploadedFile, isEditorReady, pdPc, ppPc,
                   ppReady, srReady, srRetries, srAbandoned>>
    /\ UNCHANGED lastAccept
    /\ UNCHANGED nonSessVars

HandleCardClick ==
    /\ status # "editor_debug"
    /\ \E i \in 1..Len(findings) : activeFindingId' = findings[i].target_id
    /\ UNCHANGED <<status, findings, uploadedFile, isEditorReady, pdPc, ppPc, ppReady,
                   srPc, srReady, srRetries, srAbandoned>>
    /\ UNCHANGED lastAccept
    /\ UNCHANGED nonSessVars

\* lines 337-354: handleAccept(id, text) from the detail view of the active
\* finding; success is what updateClause returned
HandleAccept ==
    /\ status # "editor_debug"
    /\ activeFindingId # NoId
    /\ \E text \in AcceptTexts, success \in BOOLEAN :
        LET id == activeFindingId
            finding == \E i \in 1..Len(findings) : findings[i].target_id = id
        IN  IF finding
            THEN /\ findings' = AfterAccept(findings, id, text, success)
                 /\ lastAccept' = [seq |-> 1 - lastAccept.seq, id |-> id, text |-> text,
                                   success |-> IF success THEN "true" ELSE "false"]
            ELSE /\ findings' = findings
                 /\ lastAccept' = [seq |-> 1 - lastAccept.seq, id |-> id, text |-> text,
                                   success |-> "not called"]
    /\ UNCHANGED <<status, activeFindingId, uploadedFile, isEditorReady, pdPc, ppPc,
                   ppReady, srPc, srReady, srRetries, srAbandoned>>
    /\ UNCHANGED nonSessVars

HandleReject ==
    /\ status # "editor_debug"
    /\ activeFindingId # NoId
    /\ findings' = Filter(findings, activeFindingId)
    /\ activeFindingId' = NoId
    /\ UNCHANGED <<status, uploadedFile, isEditorReady, pdPc, ppPc, ppReady,
                   srPc, srReady, srRetries, srAbandoned>>
    /\ UNCHANGED lastAccept
    /\ UNCHANGED nonSessVars

OnClearSelection ==
    /\ activeFindingId # NoId
    /\ activeFindingId' = NoId
    /\ UNCHANGED <<status, findings, uploadedFile, isEditorReady, pdPc, ppPc, ppReady,
                   srPc, srReady, srRetries, srAbandoned>>
    /\ UNCHANGED lastAccept
    /\ UNCHANGED nonSessVars

\* lines 363-382
HandleRestart ==
    /\ status' = "idle"
    /\ findings' = <<>>
    /\ activeFindingId' = NoId
    /\ uploadedFile' = FALSE
    /\ isEditorReady' = FALSE
    /\ srAbandoned' = (srAbandoned \/ srPc = "analyzing")
    /\ UNCHANGED <<pdPc, ppPc, ppReady, srPc, srReady, srRetries>>
    /\ UNCHANGED lastAccept
    /\ UNCHANGED nonSessVars

NextSession ==
    \/ HandleFileSelected
    \/ HandleDebugEditor
    \/ OnEditorReady
    \/ SelectMode
    \/ PartiesDetected
    \/ HandlePartySelected
    \/ HandlePlaybookUpload
    \/ PlaybookFailed
    \/ StartReview
    \/ AttemptAnalysis
    \/ ClausesExtracted
    \/ AnalysisDone
    \/ RunThrows
    \/ HandleCardClick
    \/ HandleAccept
    \/ HandleReject
    \/ OnClearSelection
    \/ HandleRestart

(***************************************************************************)
(* parseIR and mapIRToFindings (services/irParser)                          *)
(*                                                                         *)
(* The generated text is held line by line.  A line is a start marker      *)
(* <<CLAUSE id="...">> (id is NoId when the attribute is missing), an end   *)
(* marker <<END_CLAUSE>>, an end marker cut short, a field line            *)
(* [LABEL] text, or free text (possibly blank).                            *)
(***************************************************************************)
MaxLines == 4     \* longest generated text, in lines

Line(t, id, label, s) == [t |-> t, id |-> id, label |-> label, s |-> s]

ClauseIds == {1, 2}

FieldLabels == {"RISK", "ISSUE", "ORIGINAL", "REASONING", "SUGGESTED_REWRITE"}

\* the text a field line of the generated output carries after its label
WrittenValues(l) ==
    CASE l = "RISK" -> {"RED", "GREEN"}
      [] l = "ISSUE" -> {"Indemnity"}
      [] l = "ORIGINAL" -> {"Text"}
      [] l = "REASONING" -> {"Bad"}
      [] l = "SUGGESTED_REWRITE" -> {"Good"}

StartLine(id) == Line("start", id, "", "<<CLAUSE>>")

EndLine == Line("end", NoId, "", "<<END_CLAUSE>>")

CutEndLine == Line("text", NoId, "", "<<END_CLAUSE")

FieldLine(l, s) == Line("field", NoId, l, s)

TextLine(s) == Line("text", NoId, "", s)

Lines ==
    {StartLine(id) : id \in ClauseIds \cup {NoId}}
        \cup {EndLine, CutEndLine, TextLine(""), TextLine("free")}
        \cup UNION {{FieldLine(l, s) : s \in WrittenValues(l)} : l \in FieldLabels}

IRTexts == UNION {[1..n -> Lines] : n \in 0..MaxLines}

\* a start marker counts only with its identifier attribute
IsValidStart_AnyStart(ln) == ln.t = "start"

IsValidStart(ln) == ln.t = "start" /\ ln.id # NoId

\* String.trim on a value held line by line: blank lines at either end go
TrimLines(v) ==
    LET ns == {i \in 1..Len(v) : v[i] # ""}
    IN  IF ns = {} THEN <<>> ELSE SubSeq(v, SetMin(ns), SetMax(ns))

\* the field-specific default of an absent field
DefaultOf_Blank(l) == <<>>

DefaultOf(l) ==
    IF l = "REASONING" THEN <<"No reasoning", "provided">> ELSE <<"No", l>>

\* the lines of a field: from its label to the next label or the record's end
FieldExtent_ToEnd(body, j) == Len(body)

FieldExtent(body, j) ==
    LET nxt == {k \in (j + 1)..Len(body) : body[k].t = "field"}
    IN  IF nxt = {} THEN Len(body) ELSE SetMin(nxt) - 1

FieldValue(body, l) ==
    LET js == {j \in 1..Len(body) : body[j].t = "field" /\ body[j].label = l}
    IN  IF js = {} THEN DefaultOf(l)
        ELSE LET j == SetMin(js)
                 e == FieldExtent(body, j)
             IN  TrimLines([k \in 1..(e - j + 1) |-> body[j + k - 1].s])

\* the record opened by the start marker at line s, whose body ends at line e
IRRecord(text, s, e, recovered) ==
    LET body == SubSeq(text, s + 1, e)
    IN  [id |-> text[s].id,
         fields |-> [l \in FieldLabels |-> FieldValue(body, l)],
         recovered |-> recovered]

\* what becomes of a record still open at the end of the input or at the
\* next valid start marker
Salvage_Lose(recs, text, s, e) == recs

Salvage(recs, text, s, e) == Append(recs, IRRecord(text, s, e, TRUE))

\* the scan: open is the line of the start marker of the open record, 0 if none
RECURSIVE ScanIR(_, _, _, _)
ScanIR(text, i, open, recs) ==
    IF i > Len(text)
    THEN IF open = 0 THEN recs ELSE Salvage(recs, text, open, Len(text))
    ELSE IF IsValidStart(text[i])
    THEN ScanIR(text, i + 1, i,
                IF open = 0 THEN recs ELSE Salvage(recs, text, open, i - 1))
    ELSE IF text[i].t = "end" /\ open # 0
    THEN ScanIR(text, i + 1, 0,
                Append(recs, IRRecord(text, open, i - 1, FALSE)))
    ELSE ScanIR(text, i + 1, open, recs)

\* a match without the global flag: the first record only
ParseIR_FirstOnly(text) ==
    LET recs == ScanIR(text, 1, 0, <<>>)
    IN  IF recs = <<>> THEN recs ELSE <<recs[1]>>

ParseIR(text) == ScanIR(text, 1, 0, <<>>)

\* the warning put before the reasoning of a salvaged record
Surface(r) ==
    IF r.recovered
    THEN <<"[SYSTEM WARNING:">> \o r.fields["REASONING"]
    ELSE r.fields["REASONING"]

MapIRToFindings(recs) ==
    [i \in 1..Len(recs) |->
        [target_id |-> recs[i].id,
         risk_level |-> recs[i].fields["RISK"],
         issue_type |-> recs[i].fields["ISSUE"],
         original_text |-> recs[i].fields["ORIGINAL"],
         reasoning |-> Surface(recs[i]),
         suggested_text |-> recs[i].fields["SUGGESTED_REWRITE"]]]

ParseIdle ==
    /\ irText = <<>>
    /\ irPc = "idle"
    /\ irParsed = <<>>
    /\ irFindings = <<>>

ParseInit ==
    /\ irText \in IRTexts
    /\ irPc = "ready"
    /\ irParsed = <<>>
    /\ irFindings = <<>>

\* const irClauses = parseIR(textResponse)
ParseCall ==
    /\ irPc = "ready"
    /\ irParsed' = ParseIR(irText)
    /\ irPc' = "parsed"
    /\ UNCHANGED <<irText, irFindings>>
    /\ UNCHANGED nonParseVars

\* const findings = mapIRToFindings(irClauses)
MapCall ==
    /\ irPc = "parsed"
    /\ irFindings' = MapIRToFindings(irParsed)
    /\ irPc' = "mapped"
    /\ UNCHANGED <<irText, irParsed>>
    /\ UNCHANGED nonParseVars

NextParse == ParseCall \/ MapCall

\* ---- shapes of generated text (the inputs of the parser test suite) ----
FreeText(ln) == ln \in {TextLine(""), TextLine("free")}

\* lines a..b are field lines with pairwise distinct labels
FieldLinesOnly(text, a, b) ==
    /\ \A k \in a..b : text[k].t = "field"
    /\ \A j, k \in a..b : text[j].label = text[k].label => j = k

\* lines s..e hold one record: start marker with identifier, fields, end marker
ValidRecordAt(text, s, e) ==
    /\ s < e
    /\ text[s].t = "start" /\ text[s].id # NoId
    /\ text[e] = EndLine
    /\ FieldLinesOnly(text, s + 1, e - 1)

\* MOCK_VALID_SINGLE: one well-formed record, free text around it at most
ValidSingle(text) ==
    \E s, e \in 1..Len(text) :
        /\ ValidRecordAt(text, s, e)
        /\ \A k \in 1..Len(text) : (k < s \/ k > e) => FreeText(text[k])

\* lines s..e hold a block closed by its end marker, with or without identifier
BlockAtLines(text, s, e) ==
    /\ s < e
    /\ text[s].t = "start"
    /\ text[e] = EndLine
    /\ FieldLinesOnly(text, s + 1, e - 1)

\* generateBatchIR: closed blocks one after the other, free text around them
ClosedBlocks(text) ==
    \A k \in 1..Len(text) :
        \/ FreeText(text[k])
        \/ \E s \in 1..k, e \in k..Len(text) : BlockAtLines(text, s, e)

\* MOCK_MISSING_ID: a closed block whose start marker has no identifier
HasMissingId(text) == \E k \in 1..Len(text) : text[k] = StartLine(NoId)

\* the identifiers of the start markers that carry one, in source order
IdsWritten(text) ==
    LET ss == SelectSeq(text, LAMBDA ln : ln.t = "start" /\ ln.id # NoId)
    IN  [i \in 1..Len(ss) |-> ss[i].id]

\* MOCK_MALFORMED_TAGS: one record, begun at line s, that the text leaves
\* open: after its fields comes the end of the text or an end marker cut short
TruncatedAt(text, s) ==
    /\ text[s].t = "start" /\ text[s].id # NoId
    /\ \A k \in 1..(s - 1) : FreeText(text[k])
    /\ \E e \in s..Len(text) :
          /\ FieldLinesOnly(text, s + 1, e)
          /\ \/ e = Len(text)
             \/ e = Len(text) - 1 /\ text[Len(text)] = CutEndLine

\* a record left open at line s1 and overtaken by the closed record s2..e
OvertakenAt(text, s1, s2, e) ==
    /\ s1 < s2
    /\ text[s1].t = "start" /\ text[s1].id # NoId
    /\ FieldLinesOnly(text, s1 + 1, s2 - 1)
    /\ ValidRecordAt(text, s2, e)
    /\ \A k \in 1..Len(text) : (k < s1 \/ k > e) => FreeText(text[k])

\* the labels written on lines a..b
LabelsWritten(text, a, b) == {text[k].label : k \in a..b}

\* generateBatchIR: every block has an identifier, no identifier comes twice
DistinctIds(text) ==
    /\ ~HasMissingId(text)
    /\ \A j, k \in 1..Len(text) :
          (text[j].t = "start" /\ text[k].t = "start" /\ text[j].id = text[k].id)
              => j = k

\* (rawLLMOutput.match(/<<CLAUSE/g) || []).length
RawMatches(text) == Cardinality({k \in 1..Len(text) : text[k].t = "start"})

\* parsed[0].reasoning.includes("No reasoning")
Includes(v, piece) == \E i \in 1..Len(v) : v[i] = piece

(***************************************************************************)
(* parseRuleIR (services/geminiService.ts)                                  *)
(*                                                                         *)
(* The generated text is held piece by piece.  A piece is a start marker   *)
(* <<RULE id="...">>, an end marker <<END_RULE>>, a bracketed label with    *)
(* the text that follows it, or text without brackets (possibly blank).    *)
(***************************************************************************)
MaxPieces == 3    \* longest generated text, in pieces

RuleIds == {"r1", "r2"}

\* an id the playbook does not hold
StrayRuleId == "rx"

Piece(t, id, label, s) == [t |-> t, id |-> id, label |-> label, s |-> s]

\* the keys parseRuleIR extracts, and the rule field each one sets
RuleKeys ==
    {"TOPIC", "CATEGORY", "PREFERRED", "REASONING", "FALLBACK", "DRAFTING",
     "RISK_RED", "RISK_YELLOW", "RISK_GREEN"}

\* a bracketed word that is none of the keys
StrayLabel == "NOTE"

RulePieces ==
    {Piece("start", id, "", "<<RULE>>") : id \in RuleIds \cup {StrayRuleId}}
        \cup {Piece("end", "", "", "<<END_RULE>>")}
        \cup {Piece("text", "", "", s) : s \in {"", "more"}}
        \cup {Piece("field", "", l, s) : l \in RuleKeys, s \in {"", "new"}}
        \cup {Piece("field", "", StrayLabel, "new")}

RuleTexts == UNION {[1..n -> RulePieces] : n \in 0..MaxPieces}

\* a rule of the playbook handed to parseRuleIR
OriginalRule(id) ==
    [rule_id |-> id,
     subcategory |-> <<"subcategory", id>>,
     clause_number |-> <<"clause", id>>,
     topic |-> <<"topic", id>>,
     category |-> <<"category", id>>,
     preferred_position |-> <<"preferred", id>>,
     reasoning |-> <<"reasoning", id>>,
     fallback_position |-> <<"fallback", id>>,
     suggested_drafting |-> <<"drafting", id>>,
     risk_criteria |-> [red |-> <<"red", id>>,
                        yellow |-> <<"yellow", id>>,
                        green |-> <<"green", id>>]]

OriginalRules == <<OriginalRule("r1"), OriginalRule("r2")>>

\* originalRules.find(r => r.rule_id === id); 0 for undefined
FindRule(rules, id) ==
    LET ks == {k \in 1..Len(rules) : rules[k].rule_id = id}
    IN  IF ks = {} THEN 0 ELSE SetMin(ks)

\* blockRegex.exec from piece `from` on: the leftmost start marker that an
\* end marker follows, with the first such end marker; <<0, 0>> for null
NextBlock(text, from) ==
    LET ss == {i \in from..Len(text) :
                  /\ text[i].t = "start"
                  /\ \E e \in (i + 1)..Len(text) : text[e].t = "end"}
    IN  IF ss = {} THEN <<0, 0>>
        ELSE LET s == SetMin(ss)
             IN  <<s, SetMin({e \in (s + 1)..Len(text) : text[e].t = "end"})>>

\* extract(key): the text after the first [key], up to the next bracketed
\* word or the end of the body, trimmed; found is FALSE for null
Extract(body, key) ==
    LET js == {j \in 1..Len(body) : body[j].t = "field" /\ body[j].label = key}
    IN  IF js = {} THEN [found |-> FALSE, value |-> <<>>]
        ELSE LET j == SetMin(js)
                 e == FieldExtent(body, j)
             IN  [found |-> TRUE,
                  value |-> TrimLines([k \in 1..(e - j + 1) |-> body[j + k - 1].s])]

\* the truthiness test of `if (topic)` and of `red || ...`
Truthy(x) == x.found /\ x.value # <<>>

\* red || newRule.risk_criteria.red
OrElse_Null(x, old) == x.value

OrElse(x, old) == IF Truthy(x) THEN x.value ELSE old

Assign(x, old) == IF Truthy(x) THEN x.value ELSE old

\* the body of the while loop after the original rule was found
UpdatedRule(originalRule, body) ==
    LET red == Extract(body, "RISK_RED")
        yellow == Extract(body, "RISK_YELLOW")
        green == Extract(body, "RISK_GREEN")
    IN  [rule_id |-> originalRule.rule_id,
         subcategory |-> originalRule.subcategory,
         clause_number |-> originalRule.clause_number,
         topic |-> Assign(Extract(body, "TOPIC"), originalRule.topic),
         category |-> Assign(Extract(body, "CATEGORY"), originalRule.category),
         preferred_position |->
             Assign(Extract(body, "PREFERRED"), originalRule.preferred_position),
         reasoning |-> Assign(Extract(body, "REASONING"), originalRule.reasoning),
         fallback_position |->
             Assign(Extract(body, "FALLBACK"), originalRule.fallback_position),
         suggested_drafting |->
             Assign(Extract(body, "DRAFTING"), originalRule.suggested_drafting),
         risk_criteria |->
             IF Truthy(red) \/ Truthy(yellow) \/ Truthy(green)
             THEN [red |-> OrElse(red, originalRule.risk_criteria.red),
                   yellow |-> OrElse(yellow, originalRule.risk_criteria.yellow),
                   green |-> OrElse(green, originalRule.risk_criteria.green)]
             ELSE originalRule.risk_criteria]

\* the while loop over the matches of blockRegex
RECURSIVE RuleLoop(_, _, _, _)
RuleLoop(text, originalRules, from, changes) ==
    LET m == NextBlock(text, from)
    IN  IF m[1] = 0 THEN changes
        ELSE LET k == FindRule(originalRules, text[m[1]].id)
                 body == SubSeq(text, m[1] + 1, m[2] - 1)
             IN  RuleLoop(text, originalRules, m[2] + 1,
                          IF k = 0 THEN changes
                          ELSE Append(changes, UpdatedRule(originalRules[k], body)))

ParseRuleIR(text, originalRules) == RuleLoop(text, originalRules, 1, <<>>)

\* the matches of blockRegex whose id names an original rule, as <<start, end>>
RECURSIVE MatchedBlocks(_, _, _)
MatchedBlocks(text, originalRules, from) ==
    LET m == NextBlock(text, from)
    IN  IF m[1] = 0 THEN <<>>
        ELSE (IF FindRule(originalRules, text[m[1]].id) = 0 THEN <<>> ELSE <<m>>)
                 \o MatchedBlocks(text, originalRules, m[2] + 1)

\* the field of a rule that a key sets
FieldOf(rule, key) ==
    CASE key = "TOPIC" -> rule.topic
      [] key = "CATEGORY" -> rule.category
      [] key = "PREFERRED" -> rule.preferred_position
      [] key = "REASONING" -> rule.reasoning
      [] key = "FALLBACK" -> rule.fallback_position
      [] key = "DRAFTING" -> rule.suggested_drafting
      [] key = "RISK_RED" -> rule.risk_criteria.red
      [] key = "RISK_YELLOW" -> rule.risk_criteria.yellow
      [] key = "RISK_GREEN" -> rule.risk_criteria.green

RuleIdle ==
    /\ rlText = <<>>
    /\ rlPc = "idle"
    /\ rlChanges = <<>>
    /\ rlPlaybook = <<>>
    /\ rlResult = <<>>

RuleInit ==
    /\ rlText \in RuleTexts
    /\ rlPc = "ready"
    /\ rlChanges = <<>>
    /\ rlPlaybook = OriginalRules
    /\ rlResult = <<>>

ParseRuleCall ==
    /\ rlPc = "ready"
    /\ rlChanges' = ParseRuleIR(rlText, OriginalRules)
    /\ rlPc' = "done"
    /\ UNCHANGED <<rlText, rlPlaybook, rlResult>>
    /\ UNCHANGED nonRuleVars

NextRules == ParseRuleCall

(***************************************************************************)
(* refinePlaybookGlobal (services/geminiService.ts)                        *)
(***************************************************************************)
MaxRules == 2         \* rules of the playbook
MaxRuleRecords == 2   \* RULE records of the generated text

\* rule_id missing (or empty)
NoRuleId == ""

\* `RULE_${i + 1}` for the rule at index i
GeneratedId == <<"RULE_1", "RULE_2", "RULE_3", "RULE_4">>

\* what tells the content of the rule at one index from the others
ContentKey == <<"k1", "k2", "k3", "k4">>

\* rule ids a playbook may come with: its own, one of the RULE_n form, none
PlaybookIds == {"r1", "RULE_2", NoRuleId}

Playbooks ==
    UNION {{[k \in 1..n |-> [OriginalRule(ContentKey[k]) EXCEPT !.rule_id = ids[k]]] :
                ids \in [1..n -> PlaybookIds]} : n \in 0..MaxRules}

\* one RULE record that sets one field
RefineRecords ==
    {<<Piece("start", id, "", "<<RULE>>"),
       Piece("field", "", l, "new"),
       Piece("end", "", "", "<<END_RULE>>")>> :
        id \in {"r1", "RULE_1", "RULE_2", StrayRuleId}, l \in {"TOPIC", "PREFERRED"}}

RECURSIVE RecordTexts(_)
RecordTexts(n) ==
    IF n = 0 THEN {<<>>}
    ELSE RecordTexts(n - 1) \cup {t \o r : t \in RecordTexts(n - 1), r \in RefineRecords}

RefineTexts == RecordTexts(MaxRuleRecords)

\* lines 798-801: rule_id: r.rule_id || `RULE_${i + 1}`
RulesWithIds(rules) ==
    [i \in 1..Len(rules) |->
        [rules[i] EXCEPT !.rule_id = IF @ # NoRuleId THEN @ ELSE GeneratedId[i]]]

\* changedRules.find(c => c.rule_id === r.rule_id); 0 for undefined
FindChange_Last(changes, id) ==
    LET ks == {k \in 1..Len(changes) : changes[k].rule_id = id}
    IN  IF ks = {} THEN 0 ELSE SetMax(ks)

FindChange(changes, id) ==
    LET ks == {k \in 1..Len(changes) : changes[k].rule_id = id}
    IN  IF ks = {} THEN 0 ELSE SetMin(ks)

\* lines 834-838: the merge
MergeChanges(rulesWithIds, changedRules) ==
    [i \in 1..Len(rulesWithIds) |->
        LET change == FindChange(changedRules, rulesWithIds[i].rule_id)
        IN  IF change # 0 THEN changedRules[change] ELSE rulesWithIds[i]]

RefineInit ==
    /\ rlText \in RefineTexts
    /\ rlPc = "ready"
    /\ rlChanges = <<>>
    /\ rlPlaybook \in Playbooks
    /\ rlResult = <<>>

\* lines 794-841, with the generated text as the answer of the service
RefinePlaybookGlobal ==
    /\ rlPc = "ready"
    /\ LET rulesWithIds == RulesWithIds(rlPlaybook)
           changedRules == ParseRuleIR(rlText, rulesWithIds)
       IN  /\ rlChanges' = changedRules
           /\ rlResult' = MergeChanges(rulesWithIds, changedRules)
    /\ rlPc' = "merged"
    /\ UNCHANGED <<rlText, rlPlaybook>>
    /\ UNCHANGED nonRuleVars

NextRefine == RefinePlaybookGlobal

(***************************************************************************)
(* structureDocument (components/superdoc/SuperdocEditor.tsx)               *)
(*                                                                         *)
(* The document is the list of its block nodes in the order descendants()  *)
(* visits them.  setNodeMarkup keeps every node's size, so the positions   *)
(* collected during the traversal stay valid and nesting plays no part.    *)
(***************************************************************************)
MaxBlocks == 2            \* block nodes of the document
MaxStructureCalls == 2    \* calls of structureDocument on one document

\* addGlobalAttributes: the node types given the id, risk and status attributes
IdTypes == {"paragraph", "heading", "listItem", "bulletList", "orderedList"}

\* a block node type of the editor's schema that the extension does not name
PlainBlockTypes == {"tableCell"}

BlockTypes == IdTypes \cup PlainBlockTypes

\* node.type.name.includes('List') || node.type.name === 'listItem'
IsList(type) == type \in {"bulletList", "orderedList", "listItem"}

IsHeading(type) == type = "heading"

\* (hasText || isList || isHeading) && !node.attrs.id
NeedsId(b) == (b.hasText \/ IsList(b.type) \/ IsHeading(b.type)) /\ b.id = NoId

\* tr.setNodeMarkup(pos, undefined, {...node.attrs, id, status: 'original'}):
\* the new node holds the attributes its type declares, the others are dropped
SetNodeMarkup(b, id) ==
    IF b.type \in IdTypes THEN [b EXCEPT !.id = id, !.status = "original"] ELSE b

\* a document as loaded: a block of an id type may bring its id (data-id)
LoadedBlocks(k) ==
    {[type |-> t, hasText |-> h, id |-> i, status |-> "original"] :
        t \in BlockTypes, h \in BOOLEAN, i \in {NoId, k}}

StructDocs ==
    UNION {{d \in [1..n -> UNION {LoadedBlocks(k) : k \in 1..MaxBlocks}] :
               \A k \in 1..n : /\ d[k] \in LoadedBlocks(k)
                               /\ d[k].id # NoId => d[k].type \in IdTypes} :
           n \in 0..MaxBlocks}

StructIdle ==
    /\ sdDoc = <<>>
    /\ sdNextId = 0
    /\ sdCalls = 0
    /\ sdDispatches = 0
    /\ sdConsole = "off"

StructInit ==
    /\ sdDoc \in StructDocs
    /\ sdNextId = MaxBlocks + 1
    /\ sdCalls = 0
    /\ sdDispatches = 0
    /\ sdConsole = "none"

\* lines 267-301, one call
StructureDocument ==
    /\ sdConsole # "off"
    /\ sdCalls < MaxStructureCalls
    /\ LET need == {k \in 1..Len(sdDoc) : NeedsId(sdDoc[k])}
           fresh(k) == sdNextId + Cardinality({j \in need : j < k})
       IN  /\ sdDoc' = [k \in 1..Len(sdDoc) |->
                           IF k \in need THEN SetNodeMarkup(sdDoc[k], fresh(k))
                           ELSE sdDoc[k]]
           /\ sdNextId' = sdNextId + Cardinality(need)
           \* tr.docChanged: the transaction holds a step
           /\ IF need # {}
              THEN /\ sdDispatches' = sdDispatches + 1
                   /\ sdConsole' = "Assigned IDs"
              ELSE /\ sdDispatches' = sdDispatches
                   /\ sdConsole' = "Document already structured."
    /\ sdCalls' = sdCalls + 1
    /\ UNCHANGED nonStructVars

NextStructure == StructureDocument

(***************************************************************************)
(* PlaybookTable (components/PlaybookTable.tsx): AI refinement and revert  *)
(***************************************************************************)
\* the rule_id the rule at an index may come with
OwnId == <<"r1", "r2", "r3", "r4">>

\* what the fields of a rule hold, as one value
Contents == {"v0", "v1", "v2"}

\* undefined
NoRule == [rule_id |-> NoRuleId, topic |-> "none"]

TableIds == {OwnId[k] : k \in 1..MaxRules} \cup {GeneratedId[k] : k \in 1..MaxRules}

\* the playbooks the table is opened with: each rule with its id or without
TablePlaybooks ==
    UNION {{[k \in 1..n |-> [rule_id |-> ids[k], topic |-> "v0"]] :
                ids \in {f \in [1..n -> {NoRuleId} \cup {OwnId[k] : k \in 1..n}] :
                            \A k \in 1..n : f[k] \in {NoRuleId, OwnId[k]}}} :
           n \in 1..MaxRules}

\* map[ruleId], NoRule for undefined
Lookup(map, ruleId) == IF ruleId \in DOMAIN map THEN map[ruleId] ELSE NoRule

\* line 350: isModified
IsModified(ruleId) == Lookup(originalMap, ruleId) # NoRule

\* line 358: isDisabled
IsDisabled(ruleId) ==
    /\ IsModified(ruleId)
    /\ ruleId \in DOMAIN viewMode
    /\ viewMode[ruleId] = "original"

\* lines 66-69: snapshotMap[ruleId]
SnapshotOf(rules, ruleId) ==
    LET ks == {k \in 1..Len(rules) : rules[k].rule_id = ruleId /\ ruleId # NoRuleId}
    IN  IF ks = {} THEN NoRule ELSE rules[SetMax(ks)]

\* lines 79-93: the rule ids for which the answer differs from the snapshot
ChangedIds(rules, updated) ==
    {updated[k].rule_id : k \in {j \in 1..Len(updated) :
        /\ updated[j].rule_id # NoRuleId
        /\ SnapshotOf(rules, updated[j].rule_id) # NoRule
        /\ updated[j] # SnapshotOf(rules, updated[j].rule_id)}}

\* line 112: prev.originalMap[id] || oldRule
KeepFirst(prev, oldRule) == IF prev # NoRule THEN prev ELSE oldRule

TableInit ==
    /\ tbRules \in TablePlaybooks
    /\ originalMap = [id \in TableIds |-> NoRule]
    /\ viewMode = [id \in TableIds |-> "unset"]
    /\ tbFirst = [k \in 1..Len(tbRules) |-> NoRule]

\* lines 31-35: handleRuleChange, from an input of a row that is not disabled
HandleRuleChange ==
    \E index \in 1..Len(tbRules), value \in Contents :
        /\ ~IsDisabled(tbRules[index].rule_id)
        /\ value # tbRules[index].topic
        /\ tbRules' = [tbRules EXCEPT ![index].topic = value]
        /\ UNCHANGED <<originalMap, viewMode, tbFirst>>
        /\ UNCHANGED nonTableVars

\* lines 64-96: handleAiSubmit with aiTarget 'global'; the answer of
\* refinePlaybookGlobal keeps the rules' number and order, gives every rule
\* its id or a generated one, and changes the content of any of them
AiSubmitGlobal ==
    \E topics \in [1..Len(tbRules) -> Contents] :
        LET withIds == RulesWithIds(tbRules)
            updated == [k \in 1..Len(tbRules) |-> [withIds[k] EXCEPT !.topic = topics[k]]]
            changed == ChangedIds(tbRules, updated)
        IN  /\ originalMap' =
                   [id \in DOMAIN originalMap |->
                       IF id \in changed
                       THEN KeepFirst(originalMap[id], SnapshotOf(tbRules, id))
                       ELSE originalMap[id]]
            /\ viewMode' =
                   [id \in DOMAIN viewMode |->
                       IF id \in changed THEN "amended" ELSE viewMode[id]]
            /\ tbRules' = updated
            /\ tbFirst' =
                   [k \in 1..Len(tbRules) |->
                       IF tbFirst[k] = NoRule /\ topics[k] # tbRules[k].topic
                       THEN tbRules[k] ELSE tbFirst[k]]
            /\ UNCHANGED nonTableVars

\* lines 98-120: handleAiSubmit with the rule_id of a row as aiTarget; the
\* answer of refinePlaybookRule is the rule with any content
AiSubmitRule ==
    \E ruleIndex \in 1..Len(tbRules), topic \in Contents :
        LET oldRule == tbRules[ruleIndex]
        IN  /\ oldRule.rule_id # NoRuleId
            /\ ~IsDisabled(oldRule.rule_id)
            /\ tbRules' = [tbRules EXCEPT ![ruleIndex].topic = topic]
            /\ originalMap' =
                   [originalMap EXCEPT ![oldRule.rule_id] = KeepFirst(@, oldRule)]
            /\ viewMode' = [viewMode EXCEPT ![oldRule.rule_id] = "amended"]
            /\ tbFirst' = [tbFirst EXCEPT ![ruleIndex] = KeepFirst(@, oldRule)]
            /\ UNCHANGED nonTableVars

\* lines 130-138: toggleRowView, from the button of a modified row
ToggleRowView ==
    \E index \in 1..Len(tbRules) :
        LET ruleId == tbRules[index].rule_id
        IN  /\ IsModified(ruleId)
            /\ viewMode' =
                   [viewMode EXCEPT ![ruleId] =
                       IF @ = "original" THEN "amended" ELSE "original"]
            /\ UNCHANGED <<tbRules, originalMap, tbFirst>>
            /\ UNCHANGED nonTableVars

\* lines 140-155: revertRow, from the button of a modified row shown as original
RevertRow ==
    \E index \in 1..Len(tbRules) :
        LET ruleId == tbRules[index].rule_id
            original == Lookup(originalMap, ruleId)
        IN  /\ IsDisabled(ruleId)
            /\ original # NoRule
            /\ tbRules' = [tbRules EXCEPT ![index] = original]
            /\ originalMap' = [originalMap EXCEPT ![ruleId] = NoRule]
            /\ viewMode' = [viewMode EXCEPT ![ruleId] = "unset"]
            /\ tbFirst' = [tbFirst EXCEPT ![index] = NoRule]
            /\ UNCHANGED nonTableVars

NextTable ==
    \/ HandleRuleChange
    \/ AiSubmitGlobal
    \/ AiSubmitRule
    \/ ToggleRowView
    \/ RevertRow

(***************************************************************************)
(* getClauses (components/superdoc/SuperdocEditor.tsx)                     *)
(***************************************************************************)
MaxNodes == 4   \* nodes of state.doc

\* node.attrs.id of a node without id
NoBlockId == ""

NodeIds == {NoBlockId, "b1", "b2"}

\* state.doc as descendants() visits it: attrs.id of every node, in order
ClauseDocs == UNION {[1..n -> NodeIds] : n \in 0..MaxNodes}

\* seenBlockIds.has(node.attrs.id)
SeenBlock_Never(seenBlockIds, id) == FALSE

SeenBlock(seenBlockIds, id) == id \in seenBlockIds

\* the callback of state.doc.descendants, node by node; a clause is kept as
\* its id and startPos (text, risk and nodeSize are read off the same node)
RECURSIVE Descendants(_, _, _, _)
Descendants(nodes, pos, seenBlockIds, clauses) ==
    IF pos > Len(nodes) THEN clauses
    ELSE IF nodes[pos] # NoBlockId /\ ~SeenBlock(seenBlockIds, nodes[pos])
         THEN Descendants(nodes, pos + 1, seenBlockIds \cup {nodes[pos]},
                          Append(clauses, [id |-> nodes[pos], startPos |-> pos]))
         ELSE Descendants(nodes, pos + 1, seenBlockIds, clauses)

ClauseInit ==
    /\ gcDoc \in ClauseDocs
    /\ gcPc \in {"ready", "noEditor"}
    /\ gcClauses = <<>>

\* lines 302-329
GetClauses ==
    /\ gcPc \in {"ready", "noEditor"}
    /\ gcClauses' = IF gcPc = "noEditor" THEN <<>>
                    ELSE Descendants(gcDoc, 1, {}, <<>>)
    /\ gcPc' = IF gcPc = "noEditor" THEN "empty" ELSE "done"
    /\ UNCHANGED gcDoc
    /\ UNCHANGED nonClauseVars

NextClauses == GetClauses

(***************************************************************************)
(* runWithConcurrencyLimit (services/geminiService.ts)                     *)
(***************************************************************************)
MaxTasks == 4   \* tasks handed to the function
MaxLimit == 2   \* limit argument

\* executing.length >= limit
MustWait_Over(length, limit) == length > limit

MustWait(length, limit) == length >= limit

\* executing.splice(executing.indexOf(p), 1)
Splice(list, p) == SelectSeq(list, LAMBDA q : q # p)

SeqRange(list) == {list[k] : k \in 1..Len(list)}

\* the for loop from task i on, as far as it runs without awaiting: it stops
\* at the await of Promise.race or, after the last task, of Promise.all
RECURSIVE ForLoop(_, _)
ForLoop(st, limit) ==
    IF st.i > Len(st.tasks) THEN [st EXCEPT !.pc = "all"]
    ELSE LET started == [st EXCEPT !.tasks[st.i] = "running",
                                   !.starts[st.i] = @ + 1,
                                   !.executing = Append(@, st.i),
                                   !.i = @ + 1]
         IN  IF MustWait(Len(started.executing), limit)
             THEN [started EXCEPT !.pc = "race"]
             ELSE ForLoop(started, limit)

\* the state in which the function awaits after running the loop from rcI on
Awaiting ==
    ForLoop([i |-> rcI, tasks |-> rcTasks, starts |-> rcStarts,
             executing |-> executing, pc |-> "loop"], rcLimit)

RunLoop ==
    LET st == Awaiting
    IN  /\ rcI' = st.i
        /\ rcTasks' = st.tasks
        /\ rcStarts' = st.starts
        /\ executing' = st.executing
        /\ rcPc' = st.pc
        /\ rcAwaited' = SeqRange(st.executing)
        /\ rcSettled' = IF st.pc = "all" /\ st.executing = <<>> THEN "ok" ELSE "none"

\* what the settling of promise p does to the pending Promise.race or
\* Promise.all: race settles as its first promise does; all is rejected by the
\* first rejection and fulfilled when its last promise is fulfilled
Reaction(p, tasks) ==
    IF rcSettled # "none" \/ p \notin rcAwaited THEN rcSettled
    ELSE IF rcPc = "race" THEN rcOutcome[p]
    ELSE IF rcPc = "all"
         THEN IF rcOutcome[p] = "fail" THEN "fail"
              ELSE IF \A q \in rcAwaited : tasks[q] = "removed" THEN "ok"
              ELSE "none"
    ELSE rcSettled

PoolInit ==
    /\ \E n \in 0..MaxTasks :
          /\ rcTasks = [k \in 1..n |-> "new"]
          /\ rcOutcome = [k \in 1..n |-> "none"]
          /\ rcStarts = [k \in 1..n |-> 0]
    /\ rcLimit \in 1..MaxLimit
    /\ rcI = 1
    /\ rcPc = "ready"
    /\ rcAwaited = {}
    /\ rcSettled = "none"
    /\ executing = <<>>
    /\ results = <<>>

\* lines 383-402: the call, up to its first await
PoolCall ==
    /\ rcPc = "ready"
    /\ RunLoop
    /\ UNCHANGED <<rcOutcome, rcLimit, results>>
    /\ UNCHANGED nonPoolVars

\* lines 388-390: the promise of a task settles; the then callback pushes the
\* result of a task that succeeded, a rejection passes through to p
TaskSettles ==
    \E p \in 1..Len(rcTasks), outcome \in {"ok", "fail"} :
        /\ rcTasks[p] = "running"
        /\ rcTasks' = [rcTasks EXCEPT ![p] = "settled"]
        /\ rcOutcome' = [rcOutcome EXCEPT ![p] = outcome]
        /\ results' = IF outcome = "ok" THEN Append(results, p) ELSE results
        /\ UNCHANGED <<rcStarts, rcLimit, rcI, rcPc, rcAwaited, rcSettled, executing>>
        /\ UNCHANGED nonPoolVars

\* lines 394-397: the finally callback of p, registered before any race or
\* all that holds p, and after it the reaction of that race or all
FinallyCallback ==
    \E p \in 1..Len(rcTasks) :
        /\ rcTasks[p] = "settled"
        /\ rcTasks' = [rcTasks EXCEPT ![p] = "removed"]
        /\ executing' = Splice(executing, p)
        /\ rcSettled' = Reaction(p, rcTasks')
        /\ UNCHANGED <<rcOutcome, rcStarts, rcLimit, rcI, rcPc, rcAwaited, results>>
        /\ UNCHANGED nonPoolVars

\* line 400: await Promise.race(executing) is over
RaceResumes ==
    /\ rcPc = "race"
    /\ rcSettled = "ok"
    /\ RunLoop
    /\ UNCHANGED <<rcOutcome, rcLimit, results>>
    /\ UNCHANGED nonPoolVars

\* line 403: await Promise.all(executing) is over, the function returns results
AllResumes ==
    /\ rcPc = "all"
    /\ rcSettled = "ok"
    /\ rcPc' = "returned"
    /\ UNCHANGED <<rcTasks, rcOutcome, rcStarts, rcLimit, rcI, rcAwaited, rcSettled,
                   executing, results>>
    /\ UNCHANGED nonPoolVars

\* lines 400, 403: the awaited race or all is rejected, the function throws
AwaitThrows ==
    /\ rcPc \in {"race", "all"}
    /\ rcSettled = "fail"
    /\ rcPc' = "threw"
    /\ UNCHANGED <<rcTasks, rcOutcome, rcStarts, rcLimit, rcI, rcAwaited, rcSettled,
                   executing, results>>
    /\ UNCHANGED nonPoolVars

NextPool ==
    \/ PoolCall
    \/ TaskSettles
    \/ FinallyCallback
    \/ RaceResumes
    \/ AllResumes
    \/ AwaitThrows

(***************************************************************************)
(* Components at rest                                                      *)
(***************************************************************************)
TableIdle ==
    /\ tbRules = <<>>
    /\ originalMap = <<>>
    /\ viewMode = <<>>
    /\ tbFirst = <<>>

ClauseIdle ==
    /\ gcDoc = <<>>
    /\ gcPc = "idle"
    /\ gcClauses = <<>>

PoolIdle ==
    /\ rcTasks = <<>>
    /\ rcOutcome = <<>>
    /\ rcStarts = <<>>
    /\ rcLimit = 0
    /\ rcI = 0
    /\ rcPc = "idle"
    /\ rcAwaited = {}
    /\ rcSettled = "none"
    /\ executing = <<>>
    /\ results = <<>>

(***************************************************************************)
(* Specifications: each drives one component, the others stay at rest.     *)
(***************************************************************************)
InitPatch ==
    PatchInit /\ ChunkIdle /\ RetryIdle /\ DispIdle /\ SessIdle
    /\ ParseIdle /\ RuleIdle /\ StructIdle
    /\ TableIdle /\ ClauseIdle /\ PoolIdle

SpecPatch == InitPatch /\ [][NextPatch]_vars

SpecPatchDesync == InitPatch /\ [][NextPatchDesync]_vars

InitChunks ==
    ChunkInit /\ PatchIdle /\ RetryIdle /\ DispIdle /\ SessIdle
    /\ ParseIdle /\ RuleIdle /\ StructIdle
    /\ TableIdle /\ ClauseIdle /\ PoolIdle

SpecChunks == InitChunks /\ [][NextChunks]_vars

InitRetry ==
    RetryIdle /\ PatchIdle /\ ChunkIdle /\ DispIdle /\ SessIdle
    /\ ParseIdle /\ RuleIdle /\ StructIdle
    /\ TableIdle /\ ClauseIdle /\ PoolIdle

SpecRetry == InitRetry /\ [][NextRetry]_vars

\* every attempt returns or fails, and every backoff delay ends
FairSpecRetry ==
    /\ SpecRetry
    /\ WF_vars(GenAttemptOk \/ GenAttemptFail)
    /\ WF_vars(GenBackoffDone)

InitDispatch ==
    DispInit /\ RetryIdle /\ PatchIdle /\ ChunkIdle /\ SessIdle
    /\ ParseIdle /\ RuleIdle /\ StructIdle
    /\ TableIdle /\ ClauseIdle /\ PoolIdle

SpecDispatch == InitDispatch /\ [][NextDispatch]_vars

\* every step of the run itself is taken and every backoff timer fires; the
\* awaited ai.models.generateContent owes no answer
FairSpecDispatch ==
    /\ SpecDispatch
    /\ WF_vars(AnalyzeStart)
    /\ WF_vars(BatchSkip)
    /\ WF_vars(BatchCall)
    /\ WF_vars(GenBackoffDone)
    /\ WF_vars(BatchResponse)
    /\ WF_vars(BatchDone)
    /\ WF_vars(BatchCatch)
    /\ WF_vars(AnalyzeReturn)

InitSession ==
    SessInit /\ PatchIdle /\ ChunkIdle /\ RetryIdle /\ DispIdle
    /\ ParseIdle /\ RuleIdle /\ StructIdle
    /\ TableIdle /\ ClauseIdle /\ PoolIdle

SpecSession == InitSession /\ [][NextSession]_vars

InitParse ==
    ParseInit /\ PatchIdle /\ ChunkIdle /\ RetryIdle /\ DispIdle /\ SessIdle
    /\ RuleIdle /\ StructIdle
    /\ TableIdle /\ ClauseIdle /\ PoolIdle

SpecParse == InitParse /\ [][NextParse]_vars

InitRules ==
    RuleInit /\ PatchIdle /\ ChunkIdle /\ RetryIdle /\ DispIdle /\ SessIdle
    /\ ParseIdle /\ StructIdle
    /\ TableIdle /\ ClauseIdle /\ PoolIdle

SpecRules == InitRules /\ [][NextRules]_vars

InitRefine ==
    RefineInit /\ PatchIdle /\ ChunkIdle /\ RetryIdle /\ DispIdle /\ SessIdle
    /\ ParseIdle /\ StructIdle
    /\ TableIdle /\ ClauseIdle /\ PoolIdle

SpecRefine == InitRefine /\ [][NextRefine]_vars

InitStructure ==
    StructInit /\ PatchIdle /\ ChunkIdle /\ RetryIdle /\ DispIdle /\ SessIdle
    /\ ParseIdle /\ RuleIdle
    /\ TableIdle /\ ClauseIdle /\ PoolIdle

SpecStructure == InitStructure /\ [][NextStructure]_vars

InitTable ==
    TableInit /\ PatchIdle /\ ChunkIdle /\ RetryIdle /\ DispIdle /\ SessIdle
    /\ ParseIdle /\ RuleIdle /\ StructIdle /\ ClauseIdle /\ PoolIdle

SpecTable == InitTable /\ [][NextTable]_vars

InitClauses ==
    ClauseInit /\ PatchIdle /\ ChunkIdle /\ RetryIdle /\ DispIdle /\ SessIdle
    /\ ParseIdle /\ RuleIdle /\ StructIdle /\ TableIdle /\ PoolIdle

SpecClauses == InitClauses /\ [][NextClauses]_vars

InitPool ==
    PoolInit /\ PatchIdle /\ ChunkIdle /\ RetryIdle /\ DispIdle /\ SessIdle
    /\ ParseIdle /\ RuleIdle /\ StructIdle /\ TableIdle /\ ClauseIdle

SpecPool == InitPool /\ [][NextPool]_vars

(***************************************************************************)
(* C1  Round-trip law of updateClause: once the transaction built from a   *)
(* diff of (block text, newText) is applied, the text extracted from the   *)
(* patched block equals newText exactly, whatever the run layout.          *)
(***************************************************************************)
RoundTrip ==
    (ucPc \in {"dispatched", "done"} /\ ucResult # "false")
        => BlockText(doc, FindBlock(blockAttrs, ucId)) = newText

\* a block spread over several runs, patched with a delete and an insert
RoundTripWitness ==
    /\ ucPc = "done" /\ ucResult = "true"
    /\ \E i \in 1..(Len(positionMap) - 1) : positionMap[i + 1] > positionMap[i] + 1
    /\ \E i \in 1..Len(txOps) : txOps[i].op = "delete"
    /\ \E i \in 1..Len(txOps) : txOps[i].op = "insert"
    /\ newText # textBuffer
    /\ BlockText(doc, FindBlock(blockAttrs, ucId)) = newText

(***************************************************************************)
(* C9  createChunks preserves order and never splits a block: the batches, *)
(* concatenated in order, are the paragraphs in input order, so every      *)
(* paragraph's record lies whole in exactly one batch.                     *)
(***************************************************************************)
ChunksPreserveOrder ==
    ckPc = "done" => Flatten(ckChunks, Len(ckChunks)) = ckDoc

ChunksPreserveOrderWitness ==
    /\ ckPc = "done"
    /\ Len(ckChunks) >= 3
    /\ \E i \in 1..Len(ckChunks) : Len(ckChunks[i]) >= 2
    /\ Flatten(ckChunks, Len(ckChunks)) = ckDoc

(***************************************************************************)
(* C10 (as claimed)  every batch is within the character budget and within *)
(* the block-count ceiling.                                                *)
(***************************************************************************)
BothBoundsHold ==
    ckPc = "done" =>
        \A i \in 1..Len(ckChunks) :
            /\ ChunkSerLen(ckChunks[i], Len(ckChunks[i])) <= MAX_CHARS_PER_BATCH
            /\ Len(ckChunks[i]) <= DynamicMaxClauses(ckDoc)

(***************************************************************************)
(* C10 (amended)  every batch is within the block-count ceiling, and       *)
(* within the character budget unless it consists of one block whose own   *)
(* serialized record exceeds the budget.                                   *)
(***************************************************************************)
BoundsHoldUnlessOversizedBlock ==
    ckPc = "done" =>
        \A i \in 1..Len(ckChunks) :
            /\ Len(ckChunks[i]) <= DynamicMaxClauses(ckDoc)
            /\ \/ ChunkSerLen(ckChunks[i], Len(ckChunks[i])) <= MAX_CHARS_PER_BATCH
               \/ Len(ckChunks[i]) = 1 /\ SerLen(ckChunks[i][1]) > MAX_CHARS_PER_BATCH

\* an oversized block alone in its batch, next to a batch within the budget
BoundsWitness ==
    /\ ckPc = "done"
    /\ \E i \in 1..Len(ckChunks) :
          /\ Len(ckChunks[i]) = 1
          /\ ChunkSerLen(ckChunks[i], 1) > MAX_CHARS_PER_BATCH
    /\ \E i \in 1..Len(ckChunks) :
          ChunkSerLen(ckChunks[i], Len(ckChunks[i])) <= MAX_CHARS_PER_BATCH

NoSharedFingerprint ==
    /\ \A i, j \in 1..Len(allFindings) :
          i # j => HashOf[allFindings[i].original_text]
                   # HashOf[allFindings[j].original_text]
    /\ \A i \in 1..Len(allFindings) :
          MapGet(seenTextHashes, HashOf[allFindings[i].original_text])
              = allFindings[i].target_id

\* record (1, L1) was accepted; (2, L2), equal to it in its first 100
\* characters and in length, was rejected
NoSharedFingerprintWitness ==
    /\ adRecs = 2
    /\ firstSeen[1] = "L1"
    /\ firstSeen[2] = "L2"
    /\ Len(allFindings) = 1
    /\ allFindings[1].target_id = 1

(***************************************************************************)
(* C5: bounded concurrency of dispatch with N = 1.  At most one remote     *)
(* generate call is in flight; the call of a batch starts at the head of   *)
(* the batch loop, where no call is in flight; at most one batch is in the *)
(* dedup-and-insert step, and no call is in flight while it is.            *)
(***************************************************************************)
SequentialDispatch ==
    /\ inFlight <= 1
    /\ (adPc = "loop" => inFlight = 0)
    /\ Cardinality(merging) <= 1
    /\ (merging # {} => inFlight = 0 /\ adPc = "merge")

\* the call of the second batch is in flight after the first batch was merged
SequentialDispatchWitness ==
    /\ adPc = "await"
    /\ adI = 1
    /\ inFlight = 1
    /\ batchLog[1].outcome = "merged"
    /\ Len(allFindings) > 0

(***************************************************************************)
(* C6: batch failure isolation.  The run never ends by throwing; every     *)
(* batch before the current one has an outcome; a failed batch adds no     *)
(* finding; when the run returns every batch has been handled and the      *)
(* result is the list of the findings merged from the other batches.       *)
(***************************************************************************)
FailureIsolation ==
    /\ adPc # "threw"
    /\ (adPc \in {"loop", "await", "merge", "returned"} => Len(batchLog) = adI)
    /\ \A i \in 1..Len(batchLog) :
          batchLog[i].outcome = "failed" =>
              batchLog[i].size = (IF i = 1 THEN 0 ELSE batchLog[i - 1].size)
    /\ (adPc = "returned" =>
          /\ adI = Len(adChunks)
          /\ adResult = allFindings
          /\ Len(adResult) = (IF adI = 0 THEN 0 ELSE batchLog[adI].size))

\* the first batch failed, the second was still processed and its findings
\* are returned
FailureIsolationWitness ==
    /\ adPc = "returned"
    /\ Len(batchLog) = 2
    /\ batchLog[1].outcome = "failed"
    /\ batchLog[2].outcome = "merged"
    /\ Len(adResult) > 0

(***************************************************************************)
(* C7: retry ceiling.  A call makes at most retries + 1 attempts, 4 with   *)
(* the default; it waits for another attempt only while retries remain and *)
(* the failure is a rate-limit or server error; it throws the error of its *)
(* last attempt, and only when no retries remain or the error is of        *)
(* another kind; if every attempt returns or fails and every delay ends,   *)
(* the call ends with a response or an error.                              *)
(***************************************************************************)
RetryCeiling ==
    /\ [](/\ grAttempts <= grArg + 1
          /\ (grArg = DEFAULT_RETRIES => grAttempts <= 4)
          /\ (grPc = "backoff" =>
                /\ grRetries > 0
                /\ (IsRateLimit(grLastError) \/ IsServerError(grLastError)))
          /\ (grPc = "thrown" =>
                /\ grLastError # NoError
                /\ (grRetries = 0
                    \/ ~(IsRateLimit(grLastError) \/ IsServerError(grLastError))))
          /\ (grPc = "returned" => grRetries >= 0))
    /\ (grPc = "attempt" ~> grPc \in {"returned", "thrown"})

\* the default call failed four times with a server error and threw it
RetryCeilingWitness ==
    /\ grPc = "thrown"
    /\ grArg = DEFAULT_RETRIES
    /\ grAttempts = 4
    /\ grRetries = 0
    /\ IsServerError(grLastError)

(***************************************************************************)
(* C8: single-batch documents.  As stated: for a document whose blocks fit *)
(* in one batch the run issues at most one remote generate call.           *)
(***************************************************************************)
AtMostOneRemoteCall ==
    Len(CreateChunks(adDoc)) <= 1 => remoteCalls <= 1

(***************************************************************************)
(* C8, amended: for a document whose blocks fit in one batch the run calls *)
(* generateContentWithRetry at most once; that call issues at most 4       *)
(* remote generate calls, each one after the first following a failed      *)
(* attempt that was retried.                                               *)
(***************************************************************************)
AtMostOneBatchCall ==
    Len(CreateChunks(adDoc)) <= 1 =>
        /\ batchCalls <= 1
        /\ remoteCalls <= DEFAULT_RETRIES + 1
        /\ remoteCalls <= batchCalls + retryableFailures

\* a one-batch document whose only call was retried to the ceiling
AtMostOneBatchCallWitness ==
    /\ adPc = "returned"
    /\ Len(adChunks) = 1
    /\ batchCalls = 1
    /\ remoteCalls = 4
    /\ retryableFailures = 3

(***************************************************************************)
(* C4: cancellation guard.  As stated: when a review run whose remote      *)
(* analysis was in flight at a reset completes, its results are discarded: *)
(* the findings stay as they were and the status does not become           *)
(* 'review_ready' through that completion.                                 *)
(***************************************************************************)
AbandonedRunDiscarded ==
    [][(srAbandoned /\ srPc = "analyzing" /\ srPc' = "done") =>
          /\ findings' = findings
          /\ (status' = "review_ready" => status = "review_ready")]_vars

(***************************************************************************)
(* C11: updateClause submits the patch as one transaction.  While the diff *)
(* segments are processed nothing is dispatched and the transaction holds  *)
(* all delete and insert operations issued so far, applied in order to the *)
(* document the position map was built on; the document changes only by    *)
(* the dispatch of that transaction, which happens once, first, and after  *)
(* the last diff segment.                                                  *)
(***************************************************************************)
SingleTransaction ==
    /\ [](/\ (ucPc = "diffing" =>
                /\ dispatches = <<>>
                /\ tr = ApplySteps(doc, txOps, Len(txOps)))
          /\ ((ucPc \in {"dispatched", "done"} /\ ucResult # "false") =>
                /\ dispatches[1] = "edit"
                /\ Cardinality({i \in 1..Len(dispatches) : dispatches[i] = "edit"}) = 1
                /\ doc = tr))
    /\ [][doc' # doc =>
            /\ ucPc = "diffing"
            /\ DiffExhausted
            /\ doc' = tr
            /\ dispatches = <<>>
            /\ dispatches' = <<"edit">>]_vars

\* a transaction of three operations has been dispatched, and nothing else
SingleTransactionWitness ==
    /\ ucPc = "dispatched"
    /\ Len(txOps) >= 3
    /\ dispatches = <<"edit">>
    /\ doc = tr
    /\ \E i \in 1..Len(txOps) : txOps[i].op = "insert"

DesyncSurfaced ==
    (ucPc = "done" /\ ucResult = "true" /\ textIndex # Len(textBuffer))
        => ucConsole # <<>>

(***************************************************************************)
(* C15  parseIR on a text holding exactly one well-formed record returns   *)
(* exactly one record: its id is the id of the start marker and each field *)
(* written in the record has exactly the value written after its label.    *)
(***************************************************************************)
SingleRecordParsed ==
    (irPc # "ready" /\ ValidSingle(irText)) =>
        /\ Len(irParsed) = 1
        /\ \A k \in 1..Len(irText) :
              /\ irText[k].t = "start" => irParsed[1].id = irText[k].id
              /\ irText[k].t = "field" =>
                    irParsed[1].fields[irText[k].label] = <<irText[k].s>>

SingleRecordParsedWitness ==
    /\ irPc = "parsed"
    /\ ValidSingle(irText)
    /\ Cardinality({k \in 1..Len(irText) : irText[k].t = "field"}) = 2
    /\ Len(irParsed) = 1
    /\ irParsed[1].fields["RISK"] = <<"GREEN">>

(***************************************************************************)
(* C16  A block whose start marker carries no identifier yields no record: *)
(* no returned record ever has a missing (or made-up) identifier, and in a *)
(* text of closed blocks the blocks that do carry an identifier are all    *)
(* returned, in order, whether or not a block without identifier stands    *)
(* among them.                                                             *)
(***************************************************************************)
MissingIdDropped ==
    irPc # "ready" =>
        /\ \A i \in 1..Len(irParsed) : irParsed[i].id \in ClauseIds
        /\ (ClosedBlocks(irText) /\ HasMissingId(irText)) =>
              [i \in 1..Len(irParsed) |-> irParsed[i].id] = IdsWritten(irText)

MissingIdDroppedWitness ==
    /\ irPc = "parsed"
    /\ ClosedBlocks(irText)
    /\ Len(irText) > 0
    /\ irText[1] = StartLine(NoId)
    /\ IdsWritten(irText) = <<2>>
    /\ Len(irParsed) = 1

(***************************************************************************)
(* C17  Truncation recovery: a record with identifier whose end marker is  *)
(* missing or cut short is still returned, once, marked recovered, each    *)
(* field written before the cut beginning with the text written; when the  *)
(* next start marker with identifier overtakes it, it ends there and holds *)
(* only its own fields.  Every finding made from a recovered record has a  *)
(* reasoning that begins with the system warning.                          *)
(***************************************************************************)
TruncationRecovered ==
    /\ irPc # "ready" =>
          \A s \in 1..Len(irText) :
              /\ TruncatedAt(irText, s) =>
                    /\ Len(irParsed) = 1
                    /\ irParsed[1].id = irText[s].id
                    /\ irParsed[1].recovered
                    /\ \A k \in (s + 1)..Len(irText) :
                          irText[k].t = "field" =>
                              LET v == irParsed[1].fields[irText[k].label]
                              IN  Len(v) >= 1 /\ v[1] = irText[k].s
              /\ \A s2, e \in 1..Len(irText) :
                    OvertakenAt(irText, s, s2, e) =>
                        /\ Len(irParsed) = 2
                        /\ irParsed[1].id = irText[s].id
                        /\ irParsed[1].recovered
                        /\ ~irParsed[2].recovered
                        /\ \A k \in (s + 1)..(s2 - 1) :
                              irParsed[1].fields[irText[k].label] = <<irText[k].s>>
                        /\ \A l \in FieldLabels \ LabelsWritten(irText, s + 1, s2 - 1) :
                              irParsed[1].fields[l] = DefaultOf(l)
    /\ irPc = "mapped" =>
          /\ Len(irFindings) = Len(irParsed)
          /\ \A i \in 1..Len(irParsed) :
                irParsed[i].recovered =>
                    /\ irFindings[i].target_id = irParsed[i].id
                    /\ irFindings[i].reasoning[1] = "[SYSTEM WARNING:"

TruncationRecoveredWitness ==
    /\ irPc = "mapped"
    /\ Len(irText) = 4
    /\ TruncatedAt(irText, 1)
    /\ irText[4] = CutEndLine
    /\ Len(irParsed) = 1
    /\ irParsed[1].recovered
    /\ irFindings[1].reasoning[1] = "[SYSTEM WARNING:"

AbsentFieldsDefaulted ==
    (irPc # "ready" /\ ValidSingle(irText)) =>
        LET absent == FieldLabels \ LabelsWritten(irText, 1, Len(irText))
        IN  /\ Len(irParsed) = 1
            /\ \A k \in 1..Len(irText) :
                  irText[k].t = "field" =>
                      irParsed[1].fields[irText[k].label] = <<irText[k].s>>
            /\ \A l \in absent : irParsed[1].fields[l] # <<>>
            /\ \A l1, l2 \in absent :
                  irParsed[1].fields[l1] = irParsed[1].fields[l2] => l1 = l2
            /\ "REASONING" \in absent =>
                  Includes(irParsed[1].fields["REASONING"], "No reasoning")

AbsentFieldsDefaultedWitness ==
    /\ irPc = "parsed"
    /\ irText = <<StartLine(1), FieldLine("RISK", "GREEN"),
                  FieldLine("ORIGINAL", "Text"), EndLine>>
    /\ Len(irParsed) = 1
    /\ Includes(irParsed[1].fields["REASONING"], "No reasoning")
    /\ irParsed[1].fields["ORIGINAL"] = <<"Text">>

(***************************************************************************)
(* C20  parseRuleIR leaves unseen fields alone: it returns one rule for    *)
(* every RULE record whose id names an original rule, with that rule_id;   *)
(* a field whose label is absent from the record equals the original's; a  *)
(* field that differs from the original's has its label in the record and  *)
(* a non-empty value made of text that follows that label in the record;   *)
(* and a label written with text right after it gives that text.           *)
(***************************************************************************)
UnseenFieldsKept ==
    rlPc = "done" =>
        LET bs == MatchedBlocks(rlText, OriginalRules, 1)
        IN  /\ Len(rlChanges) = Len(bs)
            /\ \A i \in 1..Len(bs) :
                  LET s == bs[i][1]
                      e == bs[i][2]
                      c == rlChanges[i]
                      o == OriginalRule(rlText[s].id)
                      at(key) == {k \in (s + 1)..(e - 1) :
                                    rlText[k].t = "field" /\ rlText[k].label = key}
                  IN  /\ c.rule_id = rlText[s].id
                      /\ c.subcategory = o.subcategory
                      /\ c.clause_number = o.clause_number
                      /\ \A key \in RuleKeys :
                            /\ at(key) = {} => FieldOf(c, key) = FieldOf(o, key)
                            /\ FieldOf(c, key) # FieldOf(o, key) =>
                                  /\ FieldOf(c, key) # <<>>
                                  /\ \A j \in 1..Len(FieldOf(c, key)) :
                                        \E k \in (s + 1)..(e - 1) :
                                            /\ k >= SetMin(at(key))
                                            /\ rlText[k].s = FieldOf(c, key)[j]
                            /\ \A k \in at(key) :
                                  (k = SetMin(at(key)) /\ rlText[k].s # "") =>
                                      FieldOf(c, key)[1] = rlText[k].s

UnseenFieldsKeptWitness ==
    /\ rlPc = "done"
    /\ rlText = <<Piece("start", "r2", "", "<<RULE>>"),
                  Piece("field", "", "RISK_RED", "new"),
                  Piece("end", "", "", "<<END_RULE>>")>>
    /\ Len(rlChanges) = 1
    /\ rlChanges[1].risk_criteria.red = <<"new">>
    /\ rlChanges[1].risk_criteria.yellow = OriginalRule("r2").risk_criteria.yellow
    /\ rlChanges[1].topic = OriginalRule("r2").topic

(***************************************************************************)
(* C21  Truncation recovery for RULE records: a record that starts with    *)
(* the id of an original rule and is left open (no end marker follows it,  *)
(* its labelled text runs to the end of the input) is still returned, once, *)
(* as an update of that rule.                                              *)
(***************************************************************************)
RuleTruncationRecovered ==
    (/\ rlPc = "done"
     /\ Len(rlText) >= 2
     /\ rlText[1].t = "start"
     /\ rlText[1].id \in RuleIds
     /\ \A k \in 2..Len(rlText) : rlText[k].t = "field") =>
        /\ Len(rlChanges) = 1
        /\ rlChanges[1].rule_id = rlText[1].id

(***************************************************************************)
(* C22  Relevance pre-filter: a batch is skipped exactly when its best     *)
(* local category score is below 4 (a batch matching no rule included); a  *)
(* skipped batch adds no finding, the remote calls made are exactly one    *)
(* per batch scoring 4 or more that the loop has reached, and the loop     *)
(* goes on to the end of the batches.                                      *)
(***************************************************************************)
RelevanceFilter ==
    LET score(i) == MaxScore(PlaybookRules, ChunkTerms(adChunks[i]))
        reached == IF adPc \in {"await", "merge"} THEN adI + 1 ELSE adI
    IN  /\ \A i \in 1..Len(batchLog) :
              /\ batchLog[i].outcome = "skipped" <=> score(i) < 4
              /\ batchLog[i].outcome = "skipped" =>
                    batchLog[i].size = (IF i = 1 THEN 0 ELSE batchLog[i - 1].size)
        /\ adPc \in {"loop", "await", "merge", "returned"} =>
              batchCalls = Cardinality({i \in 1..reached : score(i) >= 4})
        /\ adPc = "returned" => Len(batchLog) = Len(adChunks)

RelevanceFilterWitness ==
    /\ adPc = "returned"
    /\ Len(batchLog) = 2
    /\ batchLog[1].outcome = "skipped"
    /\ batchLog[2].outcome = "merged"
    /\ batchLog[2].size > 0
    /\ batchCalls = 1

(***************************************************************************)
(* C23  No operation blocks indefinitely: every remote call is bounded by  *)
(* a timeout of its own, so analyzeDocumentWithGemini returns in the end   *)
(* even when the text-generation service never answers a call.             *)
(***************************************************************************)
RunEventuallyReturns == <>(adPc = "returned")

(***************************************************************************)
(* C24  Block identifiers are stable: a call of structureDocument never    *)
(* changes an id a block has, gives a block without id only an id that no  *)
(* block of the document has and no other block gets, and, on a document   *)
(* that structureDocument has already handled, changes nothing and         *)
(* dispatches no transaction.                                              *)
(***************************************************************************)
StableIdsIdempotent ==
    [][/\ Len(sdDoc') = Len(sdDoc)
       /\ \A k \in 1..Len(sdDoc) :
             /\ sdDoc[k].id # NoId => sdDoc'[k].id = sdDoc[k].id
             /\ sdDoc'[k].id # sdDoc[k].id =>
                   \A j \in 1..Len(sdDoc) :
                       /\ sdDoc[j].id # sdDoc'[k].id
                       /\ sdDoc'[j].id = sdDoc'[k].id => j = k
       /\ sdCalls >= 1 => (sdDoc' = sdDoc /\ sdDispatches' = sdDispatches)]_vars

(***************************************************************************)
(* C25  The block-count ceiling of createChunks is one number for the      *)
(* whole document, set by the average text length of all its blocks: 50    *)
(* below 200 characters, 30 from 200 to below 500, 18 from 500 on.  No     *)
(* batch holds more blocks than that, and the first batch holds exactly    *)
(* that many whenever the document is longer and the character budget      *)
(* would have let one more block in.                                       *)
(***************************************************************************)
CeilingFromAverage ==
    ckPc = "done" =>
        LET n == Len(ckDoc)
            total == SumLen(ckDoc, n)
            ceiling == IF total < 200 * n THEN 50
                       ELSE IF total >= 200 * n /\ total < 500 * n THEN 30
                       ELSE 18
            room == n > ceiling /\
                    SumLen(ckDoc, ceiling + 1) + (ceiling + 1) * SerLen([len |-> 0])
                        <= MAX_CHARS_PER_BATCH
        IN  /\ \A c \in 1..Len(ckChunks) : Len(ckChunks[c]) <= ceiling
            /\ room => Len(ckChunks[1]) = ceiling

CeilingFromAverageWitness ==
    /\ ckPc = "done"
    /\ Len(ckDoc) = 31
    /\ \A i \in 1..Len(ckDoc) : ckDoc[i].len = 200
    /\ Len(ckChunks) = 2
    /\ Len(ckChunks[1]) = 30

(***************************************************************************)
(* C26  Offset invariant of the patch builder: while updateClause          *)
(* processes the diff segments, mapOffset equals the total length of the   *)
(* tokens inserted so far minus the total length of the ranges deleted so  *)
(* far in this transaction, which is also the growth of the document the   *)
(* transaction holds; a DELETE lowers it by the length of the range it     *)
(* issued, an INSERT raises it by the token length, an EQUAL leaves it     *)
(* unchanged.                                                              *)
(***************************************************************************)
RECURSIVE NetLength(_, _)
\* inserted minus deleted length of the first n operations of a transaction
NetLength(ops, n) ==
    IF n = 0 THEN 0
    ELSE NetLength(ops, n - 1)
         + (IF ops[n].op = "insert" THEN Len(ops[n].text)
            ELSE 0 - (ops[n].to - ops[n].from))

OffsetInvariant ==
    /\ [](ucPc = "diffing" =>
            /\ mapOffset = NetLength(txOps, Len(txOps))
            /\ Len(tr) = Len(doc) + mapOffset)
    /\ [][(ucPc = "diffing" /\ ucPc' = "diffing") =>
            IF Len(txOps') = Len(txOps)
            THEN \* EQUAL
                 /\ textIndex' > textIndex
                 /\ mapOffset' = mapOffset
            ELSE LET step == txOps'[Len(txOps')] IN
                 IF step.op = "delete"
                 THEN /\ mapOffset' = mapOffset - (step.to - step.from)
                      /\ Len(tr') = Len(tr) - (step.to - step.from)
                 ELSE /\ mapOffset' = mapOffset + Len(step.text)
                      /\ Len(tr') = Len(tr) + Len(step.text)]_vars

\* a delete whose range spans a run boundary (longer than its token), then
\* an insert: the offset is the net of the two
OffsetInvariantWitness ==
    /\ ucPc = "diffing"
    /\ Len(txOps) = 2
    /\ txOps[1].op = "delete"
    /\ txOps[1].to - txOps[1].from > Len(txOps[1].text)
    /\ txOps[2].op = "insert"
    /\ mapOffset = Len(txOps[2].text) - (txOps[1].to - txOps[1].from)
    /\ mapOffset < 0

(***************************************************************************)
(* C27  Cursor rules of the patch builder: textIndex never decreases and   *)
(* is advanced, by the token length, only by EQUAL and DELETE segments; an *)
(* INSERT is issued at positionMap[textIndex] + mapOffset, or at (last     *)
(* mapped position + 1) + mapOffset when textIndex is past the end of the  *)
(* table, and leaves textIndex unchanged; when the segments cover the      *)
(* original text the final textIndex is the length of the original text.   *)
(***************************************************************************)
CursorRules ==
    /\ [][ucPc # "idle" => textIndex' >= textIndex]_vars
    /\ [][(ucPc = "diffing" /\ ucPc' = "diffing") =>
            IF Len(txOps') = Len(txOps)
            THEN \* EQUAL
                 /\ textIndex' > textIndex
                 /\ textIndex' - textIndex = propIndex' - propIndex
            ELSE LET step == txOps'[Len(txOps')] IN
                 IF step.op = "delete"
                 THEN textIndex' = textIndex + Len(step.text)
                 ELSE /\ textIndex' = textIndex
                      /\ step.from =
                            (IF textIndex < Len(positionMap)
                             THEN positionMap[textIndex + 1]
                             ELSE positionMap[Len(positionMap)] + 1) + mapOffset]_vars
    /\ []((ucPc \in {"dispatched", "done"} /\ ucResult # "false")
            => textIndex = Len(textBuffer))

\* the whole text was walked by an EQUAL and a DELETE, then an INSERT was
\* issued past the end of the table
CursorRulesWitness ==
    /\ ucPc = "dispatched"
    /\ Len(txOps) = 2
    /\ txOps[1].op = "delete"
    /\ txOps[1].from > positionMap[1]
    /\ txOps[2].op = "insert"
    /\ textIndex = Len(positionMap)
    /\ textIndex > Len(txOps[1].text)
    /\ txOps[2].from = positionMap[Len(positionMap)] + 1 + (mapOffset - Len(txOps[2].text))

PositionMapper ==
    /\ ucPc = "diffing" =>
        LET k == FindBlock(blockAttrs, ucId)
            lo == OpenIdx(doc, k)
            hi == CloseIdx(doc, k)
            n == Len(positionMap)
        IN  /\ n = Len(textBuffer)
            /\ n = Cardinality({j \in lo..hi : IsText(doc[j])})
            /\ \A i \in 1..n :
                /\ positionMap[i] + 1 \in (lo + 1)..(hi - 1)
                /\ doc[positionMap[i] + 1] = textBuffer[i]
            /\ \A i \in 1..(n - 1) :
                /\ positionMap[i] < positionMap[i + 1]
                /\ \A p \in (positionMap[i] + 1)..(positionMap[i + 1] - 1) :
                        ~IsText(doc[p + 1])
                /\ IsText(doc[positionMap[i] + 2]) => positionMap[i + 1] = positionMap[i] + 1
    /\ (ucPc = "done" /\ ucConsole = <<"No text in block">>) =>
        LET k == FindBlock(blockAttrs, ucId) IN
        /\ positionMap = <<>>
        /\ textBuffer = <<>>
        /\ \A j \in OpenIdx(doc, k)..CloseIdx(doc, k) : ~IsText(doc[j])

\* two characters of one run, then a gap left by a leaf node and a run
\* boundary before the third
PositionMapperWitness ==
    /\ ucPc = "diffing"
    /\ Len(positionMap) = 3
    /\ positionMap[2] = positionMap[1] + 1
    /\ positionMap[3] > positionMap[2] + 2
    /\ \E p \in (positionMap[2] + 1)..(positionMap[3] - 1) : doc[p + 1] = "*"

(***************************************************************************)
(* C30  Dedup rejections never abort the run: a record rejected by the     *)
(* identifier check or by the fingerprint check is skipped and nothing     *)
(* else changes, the merge loop stays on the same batch with the batch     *)
(* loop untouched, so the records that follow and the later batches are    *)
(* handled as if the record had not been there; and the identifier check   *)
(* comes first: a record is reported as a content duplicate only if its    *)
(* identifier has not been seen.                                           *)
(***************************************************************************)
RejectionsDoNotAbort ==
    [][adRecs' = adRecs + 1 =>
        /\ adPc = "merge" /\ adPc' = "merge"
        /\ UNCHANGED <<adI, adChunks, adDoc, batchLog, batchCalls, merging, adResult>>
        /\ adWarn'.kind = "dup_id" <=> adWarn'.duplicate \in seenIds
        /\ adWarn'.kind = "dup_text" =>
                /\ adWarn'.duplicate \notin seenIds
                /\ adWarn'.original # adWarn'.duplicate
                /\ \E h \in DOMAIN seenTextHashes : seenTextHashes[h] = adWarn'.original
        /\ IF adWarn'.kind \in {"dup_id", "dup_text"}
           THEN UNCHANGED <<allFindings, seenIds, seenTextHashes>>
           ELSE /\ Len(allFindings') = Len(allFindings) + 1
                /\ SubSeq(allFindings', 1, Len(allFindings)) = allFindings
                /\ allFindings'[Len(allFindings')].target_id \notin seenIds]_vars

\* a record was accepted, a record of another id was rejected for carrying
\* the same text, and after it, in a later batch, a record of that id with
\* another text was accepted
RejectionsDoNotAbortWitness ==
    /\ adPc = "merge"
    /\ adRecs = 3
    /\ Len(allFindings) = 2
    /\ firstSeen[allFindings[2].target_id] = allFindings[1].original_text
    /\ Len(batchLog) >= 1
    /\ batchLog[1] = [outcome |-> "merged", size |-> 1]
    /\ adWarn.kind = "none"

(***************************************************************************)
(* C31  createChunks never returns an empty batch: a batch is flushed only *)
(* when it holds something, so no batch pushed during the loop is empty;   *)
(* an empty document gives zero batches, a non-empty document at least     *)
(* one, and every returned batch holds at least one block.                 *)
(***************************************************************************)
NoEmptyBatch ==
    /\ ckPc \in {"loop", "done"} =>
            \A c \in 1..Len(ckSt.chunks) : Len(ckSt.chunks[c]) >= 1
    /\ ckPc = "done" =>
            /\ Len(ckDoc) = 0 <=> Len(ckChunks) = 0
            /\ \A c \in 1..Len(ckChunks) : Len(ckChunks[c]) >= 1

\* the first block alone overflows the character budget of the still empty
\* batch, and the document goes on after it
NoEmptyBatchWitness ==
    /\ ckPc = "done"
    /\ Len(ckDoc) >= 2
    /\ SerLen(ckDoc[1]) > MAX_CHARS_PER_BATCH
    /\ Len(ckChunks) >= 2
    /\ Len(ckChunks[1]) = 1

(***************************************************************************)
(* C32  generateContentWithRetry does not retry non-transient failures:    *)
(* when an attempt fails with an error that is neither a rate-limit error  *)
(* (429 as status or code, or a message holding 429, quota or              *)
(* RESOURCE_EXHAUSTED) nor a server error (status 500 or 503, code 500),   *)
(* the call throws that error at once: no delay is set, no retry is used   *)
(* up and no further attempt is made, whatever number of retries remains.  *)
(***************************************************************************)
NonTransientNotRetried ==
    /\ [][(grPc = "attempt" /\ grPc' \in {"backoff", "thrown"}
            /\ grLastError'.status \notin {429, 500, 503}
            /\ grLastError'.code \notin {429, 500}
            /\ grLastError'.msg \notin {"429", "quota", "RESOURCE_EXHAUSTED"})
          => /\ grPc' = "thrown"
             /\ UNCHANGED <<grDelay, grRetries, grAttempts, remoteCalls, retryableFailures>>]_vars
    /\ [][grPc = "thrown" =>
            (grPc' = "thrown" => UNCHANGED <<grAttempts, remoteCalls, inFlight, grLastError>>)
            /\ grPc' \notin {"backoff", "returned"}
            /\ (grPc' = "attempt" => grAttempts' = 1)]_vars

\* a server error was retried, then the second attempt failed with a client
\* error and the call threw it with two retries left
NonTransientNotRetriedWitness ==
    /\ grPc = "thrown"
    /\ grArg = DEFAULT_RETRIES
    /\ grAttempts = 2
    /\ grRetries = 2
    /\ retryableFailures >= 1
    /\ grLastError.status = 400

(***************************************************************************)
(* C33  Accepting a finding is gated on the patch: handleAccept marks the  *)
(* finding with the given id resolved, and stores the accepted text in it, *)
(* only when updateClause returned true, and leaves every other finding as *)
(* it was; when updateClause returns false, or is not called, the findings *)
(* stay unchanged; no other step resolves a finding.  handleReject removes *)
(* exactly the finding with the given id and leaves the others unchanged   *)
(* and in order.                                                           *)
(***************************************************************************)
AcceptGatedOnPatch ==
    /\ [][lastAccept'.seq # lastAccept.seq =>
            IF lastAccept'.success = "true"
            THEN /\ Len(findings') = Len(findings)
                 /\ \A i \in 1..Len(findings) :
                        IF findings[i].target_id = lastAccept'.id
                        THEN findings'[i] = [target_id |-> lastAccept'.id,
                                             status |-> "resolved",
                                             suggested_text |-> lastAccept'.text]
                        ELSE findings'[i] = findings[i]
                 /\ \E i \in 1..Len(findings) : findings[i].target_id = lastAccept'.id
            ELSE findings' = findings]_vars
    /\ [][(\E i \in 1..Len(findings') :
                /\ findings'[i].status = "resolved"
                /\ \A j \in 1..Len(findings) : findings[j] # findings'[i])
          => /\ lastAccept'.seq # lastAccept.seq
             /\ lastAccept'.success = "true"]_vars
    /\ [][(Len(findings') < Len(findings) /\ status' = status) =>
            /\ Len(findings') = Len(findings) - 1
            /\ \E k \in 1..Len(findings) :
                /\ findings[k].target_id = activeFindingId
                /\ \A i \in 1..(k - 1) : findings'[i] = findings[i]
                /\ \A i \in k..Len(findings') : findings'[i] = findings[i + 1]]_vars

\* one finding was accepted with an edited text; accepting the other failed
\* in updateClause, and it was then rejected: the resolved one is what is left
AcceptGatedOnPatchWitness ==
    /\ Len(findings) = 1
    /\ findings[1].status = "resolved"
    /\ findings[1].suggested_text = "edited"
    /\ lastAccept.success = "false"
    /\ lastAccept.id \notin {NoId, findings[1].target_id}
    /\ activeFindingId = NoId

(***************************************************************************)
(* C34  Session invariant: whatever the order of card clicks, accepts,     *)
(* rejects, restarts, clear-selection callbacks and completions of review  *)
(* runs, session.activeFindingId is null or the target_id of a finding     *)
(* that is in session.findings, so the detail view always finds the        *)
(* finding it shows.                                                       *)
(***************************************************************************)
ActiveFindingExists ==
    activeFindingId # NoId =>
        \E i \in 1..Len(findings) : findings[i].target_id = activeFindingId

\* the one finding left is selected, after the other finding was accepted
\* and then rejected
ActiveFindingExistsWitness ==
    /\ status = "review_ready"
    /\ activeFindingId # NoId
    /\ Len(findings) = 1
    /\ findings[1].target_id = activeFindingId
    /\ findings[1].status = "resolved"
    /\ lastAccept.success = "true"
    /\ lastAccept.id # activeFindingId

(***************************************************************************)
(* C35  Bounded wait for the editor in startReview: attemptAnalysis polls  *)
(* for editor readiness at most 41 times (40 retries); a poll made when    *)
(* the editor is ready goes on to structure the document, so that the run  *)
(* gives up, with status 'error' and no analysis started, only when the    *)
(* editor is still not ready at the last poll.                             *)
(***************************************************************************)
BoundedEditorWait ==
    /\ [](srPc = "poll" => srRetries \in 0..POLL_RETRIES)
    /\ [][(srPc = "poll" /\ (srRetries' # srRetries \/ srPc' # "poll")) =>
            /\ isEditorReady => srPc' = "structured"
            /\ srPc' = "error" => (srRetries = 0 /\ status' = "error")
            /\ srPc' = "poll" => srRetries' = srRetries - 1]_vars

(***************************************************************************)
(* refinePlaybookGlobal: the merge                                         *)
(***************************************************************************)
\* every match of blockRegex in the text, as <<start, end>>
RECURSIVE RecordBlocks(_, _)
RecordBlocks(text, from) ==
    LET m == NextBlock(text, from)
    IN  IF m[1] = 0 THEN <<>> ELSE <<m>> \o RecordBlocks(text, m[2] + 1)

\* the ids the RULE records of the text name
RecordIds(text) ==
    LET bs == RecordBlocks(text, 1)
    IN  {text[bs[k][1]].id : k \in 1..Len(bs)}

\* the body of the first RULE record that names id
FirstRecordBody(text, id) ==
    LET bs == RecordBlocks(text, 1)
        k == SetMin({j \in 1..Len(bs) : text[bs[j][1]].id = id})
    IN  SubSeq(text, bs[k][1] + 1, bs[k][2] - 1)

\* C36 as stated: the returned playbook has the same number of rules, the
\* rule at each index keeps its rule_id, a rule whose id no RULE record names
\* is returned unchanged (so a record whose id matches no rule changes
\* nothing), and a named rule carries the change of the first record naming it.
RefineKeepsOtherRules ==
    rlPc = "merged" =>
        /\ Len(rlResult) = Len(rlPlaybook)
        /\ \A i \in 1..Len(rlPlaybook) :
              /\ rlResult[i].rule_id = rlPlaybook[i].rule_id
              /\ rlPlaybook[i].rule_id \notin RecordIds(rlText) =>
                     rlResult[i] = rlPlaybook[i]
              /\ rlPlaybook[i].rule_id \in RecordIds(rlText) =>
                     rlResult[i] =
                         UpdatedRule(rlPlaybook[FindRule(rlPlaybook, rlPlaybook[i].rule_id)],
                                     FirstRecordBody(rlText, rlPlaybook[i].rule_id))

\* C36, amended: the returned playbook has the same number of rules in the
\* same order; a rule that has a rule_id keeps it and a rule without one is
\* returned with the id RULE_<index + 1>; with these ids, a rule whose id no
\* RULE record names is returned otherwise unchanged (so a record whose id
\* matches no rule changes nothing), and a rule whose id is named is replaced by
\* the change built from the first record naming it, applied to the first
\* rule that has this id.
RefineMerge ==
    rlPc = "merged" =>
        LET withIds == [i \in 1..Len(rlPlaybook) |->
                           IF rlPlaybook[i].rule_id # NoRuleId THEN rlPlaybook[i]
                           ELSE [rlPlaybook[i] EXCEPT !.rule_id = GeneratedId[i]]]
        IN  /\ Len(rlResult) = Len(rlPlaybook)
            /\ \A i \in 1..Len(rlPlaybook) :
                  LET id == withIds[i].rule_id
                  IN  /\ rlResult[i].rule_id = id
                      /\ id \notin RecordIds(rlText) => rlResult[i] = withIds[i]
                      /\ id \in RecordIds(rlText) =>
                             rlResult[i] =
                                 UpdatedRule(withIds[FindRule(withIds, id)],
                                             FirstRecordBody(rlText, id))

\* a merged playbook of two rules where two records that set different fields
\* name the first rule and no record names the second, which came without
\* a rule_id
RefineMergeWitness ==
    /\ rlPc = "merged"
    /\ Len(rlPlaybook) = 2
    /\ rlPlaybook[1].rule_id = "r1"
    /\ rlPlaybook[2].rule_id = NoRuleId
    /\ Len(RecordBlocks(rlText, 1)) = 2
    /\ RecordIds(rlText) = {"r1"}
    /\ rlText[2].label # rlText[5].label
    /\ rlResult[1] # rlPlaybook[1]

(***************************************************************************)
(* PlaybookTable: revert                                                   *)
(***************************************************************************)
\* C37: after any number of AI refinements of a rule, originalMap holds for
\* that rule the snapshot taken before the first of them; revertRow puts
\* exactly that snapshot back at the rule's index and removes the rule from
\* originalMap and viewMode, and leaves every other rule as it was.
RevertRoundTrip ==
    /\ [](\A k \in 1..Len(tbRules) :
             tbFirst[k] # NoRule =>
                 Lookup(originalMap, tbRules[k].rule_id) = tbFirst[k])
    /\ [][\A k \in 1..Len(tbRules) :
             (IsModified(tbRules[k].rule_id)
                 /\ Lookup(originalMap', tbRules[k].rule_id) = NoRule) =>
                 /\ tbRules'[k] = tbFirst[k]
                 /\ viewMode'[tbRules[k].rule_id] = "unset"
                 /\ \A j \in 1..Len(tbRules) \ {k} : tbRules'[j] = tbRules[j]]_vars

(***************************************************************************)
(* getClauses: one clause per block id                                     *)
(***************************************************************************)
\* C38: getClauses returns every block id at most once: the returned list
\* holds one entry per distinct id of the document, taken from the first node
\* that carries the id, in document order.
OneClausePerId ==
    gcPc = "done" =>
        /\ \A i, j \in 1..Len(gcClauses) :
              gcClauses[i].id = gcClauses[j].id => i = j
        /\ {gcClauses[i].id : i \in 1..Len(gcClauses)} =
              {gcDoc[k] : k \in 1..Len(gcDoc)} \ {NoBlockId}
        /\ \A i \in 1..Len(gcClauses) :
              /\ gcDoc[gcClauses[i].startPos] = gcClauses[i].id
              /\ \A k \in 1..(gcClauses[i].startPos - 1) : gcDoc[k] # gcClauses[i].id
        /\ \A i, j \in 1..Len(gcClauses) :
              i < j => gcClauses[i].startPos < gcClauses[j].startPos

\* a document where an id is carried by two nodes with another id between
\* them, and the clauses returned for it
OneClausePerIdWitness ==
    /\ gcPc = "done"
    /\ Len(gcDoc) = 4
    /\ gcDoc[1] = "b1" /\ gcDoc[2] = "b2" /\ gcDoc[3] = "b1" /\ gcDoc[4] = NoBlockId
    /\ Len(gcClauses) = 2

(***************************************************************************)
(* runWithConcurrencyLimit: the bounded pool                               *)
(***************************************************************************)
\* tasks started and not yet finished
InFlight == {p \in 1..Len(rcTasks) : rcTasks[p] = "running"}

Finished(p) == rcTasks[p] \in {"settled", "removed"}

====
